---- MODULE Spec2Model ----
(***************************************************************************)
(* Model of the batch simulation driver src/bdb-simple/sim_bdb.py.         *)
(*                                                                         *)
(* One driver run is a sequential process (main) whose position is pc[r].  *)
(* Two runs r \in Runs are carried side by side so that properties that    *)
(* compare two executions can be stated; in the plain specification Spec   *)
(* only run 1 is started.                                                  *)
(*                                                                         *)
(* Real numbers are fixed-point integers: the real x is the integer        *)
(* x * Scale.  Draws of log10 priors are whole exponents.                  *)
(***************************************************************************)
EXTENDS Integers, Sequences, FiniteSets, TLC

(* ------------------------------ bounds --------------------------------- *)
\* width of the tree the driver asks for (500 in the source)
TreeWidth == 2
\* most extinct leaves an oracle tree carries
MaxExtinct == 2
\* largest batch_size argument explored
MaxBatch == 2
\* most retryable rejections the oracle produces in one run
MaxRejects == 2
\* resolution of one draw of the random stream: a draw is u / UGrain, u \in 0..UGrain-1
UGrain == 2

(* ----------------------------- constants ------------------------------- *)
\* fixed-point scale of real values
Scale == 10^5
\* Python's None for the optional integer limits
None == 0 - 1
\* root_state passed to the oracle
RootState == 0

Runs == {1, 2}

\* the file systems the runs work on
Hosts == {1, 2}

VARIABLES
    pc,            \* pc[r]: position of run r in main
    settings,      \* settings[r]: command line and configuration values of run r
    rng,           \* rng[r]: the generator, [seed, pos]
    sim_idx,       \* sim_idx[r]
    model,         \* model[r]: the SDSDModel of the current attempt
    seed,          \* seed[r]: the oracle seed of the current attempt
    result,        \* result[r]: [survived, root] returned by the oracle
    log10_variables, \* log10_variables[r] of the current attempt
    labels,        \* labels[r]: reduced_log10_variables of the current attempt
    files,         \* files[r]: path -> content, the files written by run r
    stderr,        \* stderr[r]: sequence of diagnostics written to sys.stderr
    outdir,        \* outdir[h]: what out_path is on the file system of host h
    oracle_memo,   \* inputs -> result, what a pure oracle has answered so far
    hist           \* hist[r]: history of run r (attempt counters, last outcome)

vars == <<pc, settings, rng, sim_idx, model, seed, result, log10_variables,
          labels, files, stderr, outdir, oracle_memo, hist>>

(* --------------------------- random stream ----------------------------- *)
\* The u-th grain produced at position pos of the stream seeded with s
\* (numpy's bit generator: a fixed function of the seed and of the number of
\* values already consumed).
Stream(s, pos) == ((s + 1) * (pos + 1) + (pos \div 2) + (pos \div 3)) % UGrain

\* np.random.default_rng(seed): a generator at the start of the stream of `seed`;
\* with seed None the stream is taken from the operating system's entropy.
default_rng_unseeded(s, entropy) == [seed |-> entropy, pos |-> 0]
default_rng(s, entropy) ==
    IF s = None THEN [seed |-> entropy, pos |-> 0] ELSE [seed |-> s, pos |-> 0]

\* One value consumed from the generator g: <<grain, generator after the draw>>.
next_double_stuck(g) == <<Stream(g.seed, g.pos), g>>
next_double(g) == <<Stream(g.seed, g.pos), [g EXCEPT !.pos = @ + 1]>>

(* ------------------------------- priors -------------------------------- *)
FixedRV(x) == [kind |-> "fixed", x |-> x, loc |-> 0, scale |-> 0]
uniform(loc, scale) == [kind |-> "uniform", x |-> 0, loc |-> loc, scale |-> scale]

\* rvs in which a fixed prior takes a value of the stream and discards it
rvs_fixed_draws(prior, g) ==
    LET d == next_double(g)
    IN  IF prior.kind = "fixed"
        THEN <<prior.x, d[2]>>
        ELSE <<prior.loc + (prior.scale * d[1]) \div UGrain, d[2]>>

\* rvs in which a fixed log prior, too, takes a value of the stream and
\* lowers its constant by it
rvs_fixed_moves(prior, g) ==
    LET d == next_double(g)
    IN  IF prior.kind = "fixed"
        THEN <<IF prior.x < 0 THEN prior.x - d[1] ELSE prior.x, d[2]>>
        ELSE <<prior.loc + (prior.scale * d[1]) \div UGrain, d[2]>>

\* prior.rvs(size = None, random_state = g): <<value, generator afterwards>>.
\* FixedRV.rvs ignores random_state; a uniform takes one value of the stream
\* and returns loc + scale * u.
rvs(prior, g) ==
    IF prior.kind = "fixed"
    THEN <<prior.x, g>>
    ELSE LET d == next_double(g)
         IN  <<prior.loc + (prior.scale * d[1]) \div UGrain, d[2]>>

\* Priors(): the defaults of the class.  state_rate is in units of 1/Scale,
\* the two log priors are in whole powers of ten, the last two in 1/Scale.
Priors ==
    [ state_rate          |-> FixedRV(1),
      log_birth_rate      |-> uniform(0 - 2, 2),
      log_death_rate_prop |-> uniform(0 - 2, 2),
      burst_rate_prop     |-> uniform(2 * (Scale \div 10), 8 * (Scale \div 10)),
      burst_prob          |-> uniform(4 * (Scale \div 10), 6 * (Scale \div 10)) ]

\* A prior set in which every distribution is fixed.
FixedPriors ==
    [ state_rate          |-> FixedRV(1),
      log_birth_rate      |-> FixedRV(0 - 1),
      log_death_rate_prop |-> FixedRV(0 - 1),
      burst_rate_prop     |-> FixedRV(5 * (Scale \div 10)),
      burst_prob          |-> FixedRV(5 * (Scale \div 10)) ]

(* ----------------------------- arithmetic ------------------------------ *)
RECURSIVE Pow10(_)
\* 10**e for a whole exponent e <= 0, as a fixed-point value
Pow10(e) == IF e >= 0 THEN Scale ELSE Pow10(e + 1) \div 10

\* product of two fixed-point values
Mul(a, b) == (a * b) \div Scale

min(xs) == CHOOSE x \in xs : \A y \in xs : x <= y

(* --------------------------- draw_bdb_model ---------------------------- *)
\* how many values of the stream one rvs call of the prior takes
taken(prior) == rvs(prior, [seed |-> 0, pos |-> 0])[2].pos

\* the generator g after n values have been taken from it
after(g, n) == [seed |-> g.seed, pos |-> g.pos + n]

\* draw_bdb_model with the sign of the last generator entry lost
draw_bdb_model_row_sign(priors, g) ==
    LET g2 == after(g, taken(priors.state_rate))
        g3 == after(g2, taken(priors.log_birth_rate))
        g4 == after(g3, taken(priors.log_death_rate_prop))
        g5 == after(g4, taken(priors.burst_rate_prop))
        state_rate == rvs(priors.state_rate, g)[1]
        log_birth_rate_0 == rvs(priors.log_birth_rate, g2)[1]
        birth_rate_0 == Pow10(log_birth_rate_0)
        birth_rate_1 == birth_rate_0
        log_death_rate_mult == rvs(priors.log_death_rate_prop, g3)[1]
        death_rate_mult == Pow10(log_death_rate_mult)
        death_rate == Mul(min({birth_rate_0, birth_rate_1}), death_rate_mult)
        burst_rate_mult == rvs(priors.burst_rate_prop, g4)[1]
        burst_rate == Mul(min({birth_rate_0, birth_rate_1}), burst_rate_mult)
        burst_prob == rvs(priors.burst_prob, g5)[1]
    IN  << [ q |-> << <<0 - state_rate, state_rate>>,
                      <<state_rate, state_rate>> >>,
             birth_rates |-> <<birth_rate_0, birth_rate_1>>,
             death_rates |-> <<death_rate, death_rate>>,
             burst_rate |-> burst_rate,
             burst_probs |-> <<burst_prob, burst_prob>>,
             burst_furcation_poisson_means |-> <<Scale, Scale>>,
             burst_furcation_poisson_shifts |-> <<2, 2>>,
             only_bifurcate |-> TRUE ],
           rvs(priors.burst_prob, g5)[2] >>

\* draw_bdb_model that reads its values from the start of the stream each time
draw_bdb_model_rewound(priors, g) ==
    LET g1 == [seed |-> g.seed, pos |-> 0]
        g2 == after(g1, taken(priors.state_rate))
        g3 == after(g2, taken(priors.log_birth_rate))
        g4 == after(g3, taken(priors.log_death_rate_prop))
        g5 == after(g4, taken(priors.burst_rate_prop))
        state_rate == rvs(priors.state_rate, g1)[1]
        log_birth_rate_0 == rvs(priors.log_birth_rate, g2)[1]
        birth_rate_0 == Pow10(log_birth_rate_0)
        birth_rate_1 == birth_rate_0
        log_death_rate_mult == rvs(priors.log_death_rate_prop, g3)[1]
        death_rate_mult == Pow10(log_death_rate_mult)
        death_rate == Mul(min({birth_rate_0, birth_rate_1}), death_rate_mult)
        burst_rate_mult == rvs(priors.burst_rate_prop, g4)[1]
        burst_rate == Mul(min({birth_rate_0, birth_rate_1}), burst_rate_mult)
        burst_prob == rvs(priors.burst_prob, g5)[1]
    IN  << [ q |-> << <<0 - state_rate, state_rate>>,
                      <<state_rate, 0 - state_rate>> >>,
             birth_rates |-> <<birth_rate_0, birth_rate_1>>,
             death_rates |-> <<death_rate, death_rate>>,
             burst_rate |-> burst_rate,
             burst_probs |-> <<burst_prob, burst_prob>>,
             burst_furcation_poisson_means |-> <<Scale, Scale>>,
             burst_furcation_poisson_shifts |-> <<2, 2>>,
             only_bifurcate |-> TRUE ],
           after(g, taken(priors.state_rate) + taken(priors.log_birth_rate)
                      + taken(priors.log_death_rate_prop)
                      + taken(priors.burst_rate_prop) + taken(priors.burst_prob)) >>

\* draw_bdb_model with the burst multiplier exponentiated like the death one
draw_bdb_model_log_burst(priors, g) ==
    LET g2 == after(g, taken(priors.state_rate))
        g3 == after(g2, taken(priors.log_birth_rate))
        g4 == after(g3, taken(priors.log_death_rate_prop))
        g5 == after(g4, taken(priors.burst_rate_prop))
        state_rate == rvs(priors.state_rate, g)[1]
        log_birth_rate_0 == rvs(priors.log_birth_rate, g2)[1]
        birth_rate_0 == Pow10(log_birth_rate_0)
        birth_rate_1 == birth_rate_0
        log_death_rate_mult == rvs(priors.log_death_rate_prop, g3)[1]
        death_rate_mult == Pow10(log_death_rate_mult)
        death_rate == Mul(min({birth_rate_0, birth_rate_1}), death_rate_mult)
        burst_rate_mult == rvs(priors.burst_rate_prop, g4)[1]
        burst_rate == Mul(min({birth_rate_0, birth_rate_1}), Pow10(burst_rate_mult))
        burst_prob == rvs(priors.burst_prob, g5)[1]
    IN  << [ q |-> << <<0 - state_rate, state_rate>>,
                      <<state_rate, 0 - state_rate>> >>,
             birth_rates |-> <<birth_rate_0, birth_rate_1>>,
             death_rates |-> <<death_rate, death_rate>>,
             burst_rate |-> burst_rate,
             burst_probs |-> <<burst_prob, burst_prob>>,
             burst_furcation_poisson_means |-> <<Scale, Scale>>,
             burst_furcation_poisson_shifts |-> <<2, 2>>,
             only_bifurcate |-> TRUE ],
           rvs(priors.burst_prob, g5)[2] >>

\* <<SDSDModel, generator afterwards>>.  Each rvs call receives the generator
\* as the calls before it have left it.
draw_bdb_model(priors, g) ==
    LET g2 == after(g, taken(priors.state_rate))
        g3 == after(g2, taken(priors.log_birth_rate))
        g4 == after(g3, taken(priors.log_death_rate_prop))
        g5 == after(g4, taken(priors.burst_rate_prop))
        state_rate == rvs(priors.state_rate, g)[1]
        log_birth_rate_0 == rvs(priors.log_birth_rate, g2)[1]
        birth_rate_0 == Pow10(log_birth_rate_0)
        birth_rate_1 == birth_rate_0
        log_death_rate_mult == rvs(priors.log_death_rate_prop, g3)[1]
        death_rate_mult == Pow10(log_death_rate_mult)
        death_rate == Mul(min({birth_rate_0, birth_rate_1}), death_rate_mult)
        burst_rate_mult == rvs(priors.burst_rate_prop, g4)[1]
        burst_rate == Mul(min({birth_rate_0, birth_rate_1}), burst_rate_mult)
        burst_prob == rvs(priors.burst_prob, g5)[1]
    IN  << [ q |-> << <<0 - state_rate, state_rate>>,
                      <<state_rate, 0 - state_rate>> >>,
             birth_rates |-> <<birth_rate_0, birth_rate_1>>,
             death_rates |-> <<death_rate, death_rate>>,
             burst_rate |-> burst_rate,
             burst_probs |-> <<burst_prob, burst_prob>>,
             burst_furcation_poisson_means |-> <<Scale, Scale>>,
             burst_furcation_poisson_shifts |-> <<2, 2>>,
             only_bifurcate |-> TRUE ],
           rvs(priors.burst_prob, g5)[2] >>

(* ------------------------------- trees --------------------------------- *)
\* A tree handle of the oracle is modelled by its leaves in leaf_iter() order;
\* a leaf is [label, leafward_state, extant].
RECURSIVE MkLeaves(_, _, _)
\* n_extant extant leaves followed by n_extinct extinct ones, labelled from
\* `first`, their states alternating 1, 0, 1, ...
MkLeaves(n_extant, n_extinct, first) ==
    IF n_extant + n_extinct = 0 THEN <<>>
    ELSE <<[label |-> first, leafward_state |-> first % 2, extant |-> n_extant > 0]>>
         \o (IF n_extant > 0
             THEN MkLeaves(n_extant - 1, n_extinct, first + 1)
             ELSE MkLeaves(0, n_extinct - 1, first + 1))

\* the trees the oracle may return
OracleTrees ==
    { [leaves |-> MkLeaves(e, x, 1)] :
        e \in (TreeWidth - 1)..(TreeWidth + 1), x \in 0..MaxExtinct }

\* what sim_SDSD_tree may return: (survived, root); burst_times is not used
OracleResults == [survived : BOOLEAN, root : OracleTrees]

number_of_leaves(root) == Len(root.leaves)
number_of_extant_leaves(root) ==
    Cardinality({i \in 1..Len(root.leaves) : root.leaves[i].extant})
number_of_extinct_leaves(root) ==
    Cardinality({i \in 1..Len(root.leaves) : ~root.leaves[i].extant})

(* -------------------------- acceptance filter -------------------------- *)
\* a truth value under which only None is false
Truthy_only_none(x) == x # None

\* Python truth value of an optional integer: None and 0 are false
Truthy(x) == x # None /\ x # 0

\* Decide with the extant limit tested before the total limit
Decide_extant_first(res, st) ==
    IF (~res.survived) /\ (~st.keep_extinct_trees) THEN "not_survived"
    ELSE IF st.max_leaves_strict
            /\ Truthy(st.max_extant_leaves)
            /\ number_of_extant_leaves(res.root) > st.max_extant_leaves
         THEN "max_extant_leaves"
    ELSE IF st.max_leaves_strict
            /\ Truthy(st.max_total_leaves)
            /\ number_of_leaves(res.root) > st.max_total_leaves
         THEN "max_total_leaves"
    ELSE IF st.max_leaves_strict
            /\ Truthy(st.max_extinct_leaves)
            /\ number_of_extinct_leaves(res.root) > st.max_extinct_leaves
         THEN "max_extinct_leaves"
    ELSE IF number_of_extant_leaves(res.root) # st.tree_width THEN "assert"
    ELSE "accept"

\* Decide without the assertion of line 209
Decide_no_assert(res, st) ==
    IF (~res.survived) /\ (~st.keep_extinct_trees) THEN "not_survived"
    ELSE IF st.max_leaves_strict
            /\ Truthy(st.max_total_leaves)
            /\ number_of_leaves(res.root) > st.max_total_leaves
         THEN "max_total_leaves"
    ELSE IF st.max_leaves_strict
            /\ Truthy(st.max_extant_leaves)
            /\ number_of_extant_leaves(res.root) > st.max_extant_leaves
         THEN "max_extant_leaves"
    ELSE IF st.max_leaves_strict
            /\ Truthy(st.max_extinct_leaves)
            /\ number_of_extinct_leaves(res.root) > st.max_extinct_leaves
         THEN "max_extinct_leaves"
    ELSE "accept"

\* Decide with the assertion of line 209 moved before the strict-mode rules
Decide_assert_first(res, st) ==
    IF (~res.survived) /\ (~st.keep_extinct_trees) THEN "not_survived"
    ELSE IF number_of_extant_leaves(res.root) # st.tree_width THEN "assert"
    ELSE IF st.max_leaves_strict
            /\ Truthy(st.max_total_leaves)
            /\ number_of_leaves(res.root) > st.max_total_leaves
         THEN "max_total_leaves"
    ELSE IF st.max_leaves_strict
            /\ Truthy(st.max_extinct_leaves)
            /\ number_of_extinct_leaves(res.root) > st.max_extinct_leaves
         THEN "max_extinct_leaves"
    ELSE "accept"

\* Decide without the survival test of line 182
Decide_keeps_extinct(res, st) ==
    IF st.max_leaves_strict
            /\ Truthy(st.max_total_leaves)
            /\ number_of_leaves(res.root) > st.max_total_leaves
         THEN "max_total_leaves"
    ELSE IF st.max_leaves_strict
            /\ Truthy(st.max_extant_leaves)
            /\ number_of_extant_leaves(res.root) > st.max_extant_leaves
         THEN "max_extant_leaves"
    ELSE IF st.max_leaves_strict
            /\ Truthy(st.max_extinct_leaves)
            /\ number_of_extinct_leaves(res.root) > st.max_extinct_leaves
         THEN "max_extinct_leaves"
    ELSE IF number_of_extant_leaves(res.root) # st.tree_width THEN "assert"
    ELSE "accept"

\* The outcome of lines 182-209 for one oracle result under the settings st:
\* "not_survived", "max_total_leaves", "max_extant_leaves", "max_extinct_leaves"
\* (the four `continue`s), "assert" (the assertion fails) or "accept".
Decide(res, st) ==
    IF (~res.survived) /\ (~st.keep_extinct_trees) THEN "not_survived"
    ELSE IF st.max_leaves_strict
            /\ Truthy(st.max_total_leaves)
            /\ number_of_leaves(res.root) > st.max_total_leaves
         THEN "max_total_leaves"
    ELSE IF st.max_leaves_strict
            /\ Truthy(st.max_extant_leaves)
            /\ number_of_extant_leaves(res.root) > st.max_extant_leaves
         THEN "max_extant_leaves"
    ELSE IF st.max_leaves_strict
            /\ Truthy(st.max_extinct_leaves)
            /\ number_of_extinct_leaves(res.root) > st.max_extinct_leaves
         THEN "max_extinct_leaves"
    ELSE IF number_of_extant_leaves(res.root) # st.tree_width THEN "assert"
    ELSE "accept"

Rejections ==
    {"not_survived", "max_total_leaves", "max_extant_leaves", "max_extinct_leaves"}

\* Diagnostic with the message of the extant limit pasted into the extinct branch
Diagnostic_pasted(res, st) ==
    LET d == Decide(res, st) IN
    IF d = "max_total_leaves"
    THEN <<[limit |-> d, value |-> st.max_total_leaves,
            leaves |-> number_of_leaves(res.root)]>>
    ELSE IF d \in {"max_extant_leaves", "max_extinct_leaves"}
    THEN <<[limit |-> "max_extant_leaves", value |-> st.max_extant_leaves,
            leaves |-> number_of_extant_leaves(res.root)]>>
    ELSE <<>>

\* What a rejection writes to sys.stderr: nothing for a tree that did not
\* survive, one message naming the limit, its value and the leaf count otherwise.
Diagnostic(res, st) ==
    LET d == Decide(res, st) IN
    IF d = "max_total_leaves"
    THEN <<[limit |-> d, value |-> st.max_total_leaves,
            leaves |-> number_of_leaves(res.root)]>>
    ELSE IF d = "max_extant_leaves"
    THEN <<[limit |-> d, value |-> st.max_extant_leaves,
            leaves |-> number_of_extant_leaves(res.root)]>>
    ELSE IF d = "max_extinct_leaves"
    THEN <<[limit |-> d, value |-> st.max_extinct_leaves,
            leaves |-> number_of_extinct_leaves(res.root)]>>
    ELSE <<>>

(* ------------------------------- labels -------------------------------- *)
\* get_model_parameters: the (key, value) items of the dict, in insertion order
get_model_parameters(sdsd_model) ==
    << <<"state_rate_01",         sdsd_model.q[1][2]>>,
       <<"state_rate_10",         sdsd_model.q[2][1]>>,
       <<"birth_rate_0",          sdsd_model.birth_rates[1]>>,
       <<"birth_rate_1",          sdsd_model.birth_rates[2]>>,
       <<"death_rate_0",          sdsd_model.death_rates[1]>>,
       <<"death_rate_1",          sdsd_model.death_rates[2]>>,
       <<"burst_rate",            sdsd_model.burst_rate>>,
       <<"burst_prob_0",          sdsd_model.burst_probs[1]>>,
       <<"burst_prob_1",          sdsd_model.burst_probs[2]>>,
       <<"expected_burst_rate_0", Mul(sdsd_model.burst_rate, sdsd_model.burst_probs[1])>>,
       <<"expected_burst_rate_1", Mul(sdsd_model.burst_rate, sdsd_model.burst_probs[2])>> >>

\* get_log10_model_parameters whose log10 accepts 0 and raises on negative values only
get_log10_model_parameters_zero_passes(sdsd_model) ==
    LET items == get_model_parameters(sdsd_model)
        n == Len(items)
    IN  IF \E i \in 1..n : items[i][2] < 0
        THEN [raised |-> TRUE, p |-> <<>>]
        ELSE [raised |-> FALSE,
              p |-> [k \in {"log10_" \o items[i][1] : i \in 1..n} |->
                       [log10_of |-> (CHOOSE it \in {items[i] : i \in 1..n} :
                                        "log10_" \o it[1] = k)[2]]]]

\* math.log10(v) of a value v > 0, kept as a term
log10(v) == [log10_of |-> v]

\* get_log10_model_parameters: [raised, p]; math.log10 raises ValueError on
\* the first item whose value is <= 0, otherwise p maps "log10_<k>" to log10(v)
get_log10_model_parameters(sdsd_model) ==
    LET items == get_model_parameters(sdsd_model)
        n == Len(items)
    IN  IF \E i \in 1..n : items[i][2] <= 0
        THEN [raised |-> TRUE, p |-> <<>>]
        ELSE [raised |-> FALSE,
              p |-> [k \in {"log10_" \o items[i][1] : i \in 1..n} |->
                       log10((CHOOSE it \in {items[i] : i \in 1..n} :
                                "log10_" \o it[1] = k)[2])]]

\* label_names of main
label_names ==
    << "log10_state_rate_01", "log10_state_rate_10",
       "log10_birth_rate_0", "log10_birth_rate_1",
       "log10_death_rate_0", "log10_death_rate_1",
       "log10_burst_rate",
       "log10_burst_prob_0", "log10_burst_prob_1",
       "log10_expected_burst_rate_0", "log10_expected_burst_rate_1" >>

\* reduce_variables that leaves out a name that is no key, as dict.get would allow
reduce_variables_skips_unknown(log10_vars, names) ==
    IF Len(names) = 0 THEN [raised |-> FALSE, p |-> log10_vars]
    ELSE [raised |-> FALSE,
          p |-> [k \in {names[i] : i \in 1..Len(names)} \cap DOMAIN log10_vars |->
                   log10_vars[k]]]

\* reduced_log10_variables of lines 215-217: [raised, p]; a name of names that
\* is no key of log10_vars raises KeyError
reduce_variables(log10_vars, names) ==
    IF Len(names) = 0 THEN [raised |-> FALSE, p |-> log10_vars]
    ELSE IF \E i \in 1..Len(names) : names[i] \notin DOMAIN log10_vars
    THEN [raised |-> TRUE, p |-> <<>>]
    ELSE [raised |-> FALSE,
          p |-> [k \in {names[i] : i \in 1..Len(names)} |-> log10_vars[k]]]

\* the order of Python's string comparison on the label names
StrOrder ==
    << "log10_birth_rate_0", "log10_birth_rate_1",
       "log10_burst_prob_0", "log10_burst_prob_1", "log10_burst_rate",
       "log10_death_rate_0", "log10_death_rate_1",
       "log10_expected_burst_rate_0", "log10_expected_burst_rate_1",
       "log10_state_rate_01", "log10_state_rate_10" >>
StrRank(a) == CHOOSE i \in 1..Len(StrOrder) : StrOrder[i] = a
StrLess(a, b) == StrRank(a) < StrRank(b)

\* sorted that leaves the keys in descending order
sorted_descending(keys) ==
    LET among(a) == a \in keys
        up == SelectSeq(StrOrder, among)
    IN  [i \in 1..Len(up) |-> up[Len(up) + 1 - i]]

\* sorted(keys): the keys in ascending order
sorted(keys) ==
    LET among(a) == a \in keys IN SelectSeq(StrOrder, among)

(* ------------------------------- writers ------------------------------- *)
\* stream_variables: the two lines of the labels file, each a tuple of fields
stream_variables(var_dict) ==
    LET names == sorted(DOMAIN var_dict)
    IN  << names, [i \in 1..Len(names) |-> var_dict[names[i]]] >>

\* stream_tip_states that writes the state of the leaf in either mode
stream_tip_states_ignores_flag(root, all_zeros) ==
    << <<"taxa", "data">> >> \o
    [i \in 1..Len(root.leaves) |->
        <<root.leaves[i].label, root.leaves[i].leafward_state>>]

\* stream_tip_states: the header line, then one line per leaf
stream_tip_states(root, all_zeros) ==
    << <<"taxa", "data">> >> \o
    [i \in 1..Len(root.leaves) |->
        IF all_zeros
        THEN <<root.leaves[i].label, 0>>
        ELSE <<root.leaves[i].label, root.leaves[i].leafward_state>>]

\* lines 220-225: the Newick text of the tree, then ";\n"
stream_tree(root, include_root_annotations) ==
    << [newick |-> root.leaves, root_annotations |-> include_root_annotations],
       ";\n" >>

\* the three paths of lines 163-166
labels_path_shared(st, idx) == <<st.out_path, st.prefix, st.start_idx, ".labels.csv">>
tree_path(st, idx)   == <<st.out_path, st.prefix, idx, ".tre">>
data_path_tree_ending(st, idx) == <<st.out_path, st.prefix, idx, ".tre">>
data_path(st, idx)   == <<st.out_path, st.prefix, idx, ".dat.csv">>
labels_path(st, idx) == <<st.out_path, st.prefix, idx, ".labels.csv">>

\* Text is a sequence of characters.
Digits == <<"0", "1", "2", "3", "4", "5", "6", "7", "8", "9">>

RECURSIVE str(_)
\* str(n) of an int, as the f-string of line 163 formats sim_idx
str(n) ==
    IF n < 0 THEN <<"-">> \o str(0 - n)
    ELSE IF n < 10 THEN <<Digits[n + 1]>>
    ELSE str(n \div 10) \o <<Digits[(n % 10) + 1]>>

\* the digits of text are all decimal digits
AllDigits(text) == \A i \in 1..Len(text) : \E d \in 1..10 : Digits[d] = text[i]

RECURSIVE ValueOf(_)
\* the number a text of digits writes
ValueOf(text) ==
    IF text = <<>> THEN 0
    ELSE 10 * ValueOf(SubSeq(text, 1, Len(text) - 1))
         + ((CHOOSE d \in 1..10 : Digits[d] = text[Len(text)]) - 1)

\* int(text) of lines 75-76: [ok, value]; an optional sign and at least one
\* digit give an int, any other text raises ValueError.  (Texts with blanks
\* around the number or underscores between digits are not explored.)
int(text) ==
    LET signed == text # <<>> /\ text[1] \in {"-", "+"}
        digits == IF signed THEN SubSeq(text, 2, Len(text)) ELSE text
    IN  IF digits = <<>> \/ ~AllDigits(digits)
        THEN [ok |-> FALSE, value |-> 0]
        ELSE [ok |-> TRUE,
              value |-> IF signed /\ text[1] = "-" THEN 0 - ValueOf(digits)
                        ELSE ValueOf(digits)]

\* What out_path can be on the file system when main starts: "absent" (and
\* os.mkdir can create it), "blocked" (absent, and os.mkdir fails: the parent
\* is missing or not writable), "dir" (a directory in which files can be
\* created), "readonly" (a directory in which no file can be created), "file"
\* (something that is not a directory).
DirStates == {"absent", "blocked", "dir", "readonly", "file"}

\* os.path.exists that is true of directories only
exists_dirs_only(d) == d \in {"dir", "readonly"}

\* os.path.exists(out_path)
exists(d) == d \in {"dir", "readonly", "file"}

\* os.mkdir that accepts a path that is already a directory
mkdir_exist_ok(d) ==
    IF d \in {"absent", "dir"} THEN [ok |-> TRUE, dir |-> "dir"] ELSE [ok |-> FALSE, dir |-> d]

\* os.mkdir(out_path): [ok, dir]; FileExistsError when the path exists, another
\* OSError when it cannot be created
mkdir(d) ==
    IF d = "absent" THEN [ok |-> TRUE, dir |-> "dir"] ELSE [ok |-> FALSE, dir |-> d]

\* open(path, 'w') of a file in out_path succeeds
can_open(d) == d = "dir"

\* os.path.join(a, b) of line 127: an absolute b replaces a, otherwise the
\* two are joined by one separator
os_path_join(a, b) ==
    IF b # <<>> /\ b[1] = "/" THEN b
    ELSE IF a = <<>> \/ a[Len(a)] = "/" THEN a \o b
    ELSE a \o <<"/">> \o b

\* the characters of the three file name endings
ext_text(ext) ==
    CASE ext = ".tre" -> <<".", "t", "r", "e">>
      [] ext = ".dat.csv" -> <<".", "d", "a", "t", ".", "c", "s", "v">>
      [] ext = ".labels.csv" -> <<".", "l", "a", "b", "e", "l", "s", ".", "c", "s", "v">>

\* path_text without the dot between the path prefix and the index
path_text_no_dot(p) ==
    os_path_join(p[1], p[2]) \o str(p[3]) \o ext_text(p[4])

\* lines 127 and 163-166: the text of the path p = <<out_path, prefix, idx,
\* ending>> when out_path and prefix are given as text
path_text(p) ==
    os_path_join(p[1], p[2]) \o <<".">> \o str(p[3]) \o ext_text(p[4])

\* open(path, 'w') ... write: the file at path is replaced by content
write_file(fs, path, content) ==
    [q \in (DOMAIN fs) \cup {path} |-> IF q = path THEN content ELSE fs[q]]

(* ------------------------------ settings ------------------------------- *)
\* values explored for the start index argument
StartIdxs == {0, 1}
\* values explored for the batch size argument
BatchSizes == (0 - 1)..MaxBatch

\* the command line of one run and the values main binds in lines 131-158;
\* argv holds the third and fourth argument as typed, start_idx and batch_size
\* what parse_cli_args makes of them, host the file system the run works on
main_settings(start, batch) ==
    [ out_path |-> "out", prefix |-> "sim",
      start_idx |-> start, batch_size |-> batch,
      argv |-> <<str(start), str(batch)>>, host |-> 1,
      entropy |-> 0, pure_oracle |-> FALSE,
      priors |-> Priors,
      include_root_annotations |-> FALSE,
      keep_extinct_trees |-> FALSE,
      max_extant_leaves |-> TreeWidth,
      tree_width |-> TreeWidth,
      max_total_leaves |-> None,
      max_extinct_leaves |-> None,
      max_time |-> None,
      max_leaves_strict |-> TRUE,
      label_names |-> label_names ]

\* main's own limits with every batch size, both prior sets and both values
\* of the two switches
BatchSettings ==
    { [main_settings(s, b) EXCEPT
          !.priors = p, !.keep_extinct_trees = k, !.max_leaves_strict = strict] :
        s \in StartIdxs, b \in BatchSizes, p \in {Priors, FixedPriors},
        k \in BOOLEAN, strict \in BOOLEAN }

\* values explored for the three optional limits (extant, total, extinct):
\* each absent or set, at or around the width; each 0; extant below the width
LimitTriples ==
    ({None, TreeWidth, TreeWidth + 1} \X {None, TreeWidth + 1} \X {None, MaxExtinct - 1})
    \cup {<<0, None, None>>, <<None, 0, None>>, <<None, None, 0>>, <<0, 0, 0>>,
          <<TreeWidth - 1, None, None>>}

\* one or two slots under every combination of the switches and the limits
LimitSettings ==
    { [main_settings(1, b) EXCEPT
          !.keep_extinct_trees = k, !.max_leaves_strict = strict,
          !.max_extant_leaves = l[1], !.max_total_leaves = l[2],
          !.max_extinct_leaves = l[3]] :
        b \in 1..2, k \in BOOLEAN, strict \in BOOLEAN, l \in LimitTriples }

AllSettings == BatchSettings \cup LimitSettings

(* ------------------------------- state --------------------------------- *)
\* a local of main that holds no live value
Unset == <<>>

\* the history of a run: how many attempts it has started, how many times it
\* has called the oracle, how many attempts were rejected, the index and the
\* outcome of the latest attempt, and which attempt wrote each file
NoHistory == [attempts |-> 0, oracle_calls |-> 0, rejected |-> 0,
              last |-> [idx |-> 0, outcome |-> "none"], writer |-> <<>>]

\* out_path does not exist yet on any host
NoDirectory == [h \in Hosts |-> "absent"]

\* nothing has run yet
Fresh ==
    /\ rng = [r \in Runs |-> Unset]
    /\ sim_idx = [r \in Runs |-> 0]
    /\ model = [r \in Runs |-> Unset]
    /\ seed = [r \in Runs |-> Unset]
    /\ result = [r \in Runs |-> Unset]
    /\ log10_variables = [r \in Runs |-> Unset]
    /\ labels = [r \in Runs |-> Unset]
    /\ files = [r \in Runs |-> <<>>]
    /\ stderr = [r \in Runs |-> <<>>]
    /\ hist = [r \in Runs |-> NoHistory]
    /\ oracle_memo = <<>>

\* One run, about to execute main, under any of the settings.
Init ==
    /\ Fresh
    /\ outdir = NoDirectory
    /\ pc = [r \in Runs |-> IF r = 1 THEN "start" ELSE "off"]
    /\ \E st \in AllSettings :
          settings = [r \in Runs |-> IF r = 1 THEN st ELSE main_settings(0, 0)]

(* ------------------------------- main ---------------------------------- *)
\* line 123: parse_cli_args; a ValueError of int() ends main
ParseArgs(r) ==
    /\ pc[r] = "start"
    /\ pc' = [pc EXCEPT ![r] = IF int(settings[r].argv[1]).ok /\ int(settings[r].argv[2]).ok
                               THEN "exists" ELSE "raised"]
    /\ UNCHANGED <<outdir, settings, rng, sim_idx, model, seed, result,
                   log10_variables, labels, files, stderr, oracle_memo, hist>>

\* line 124
ExistsCheck(r) ==
    /\ pc[r] = "exists"
    /\ pc' = [pc EXCEPT ![r] = IF exists(outdir[settings[r].host])
                               THEN "seed" ELSE "mkdir"]
    /\ UNCHANGED <<outdir, settings, rng, sim_idx, model, seed, result,
                   log10_variables, labels, files, stderr, oracle_memo, hist>>

\* line 125: an OSError of os.mkdir ends main
Mkdir(r) ==
    /\ pc[r] = "mkdir"
    /\ LET made == mkdir(outdir[settings[r].host]) IN
          /\ outdir' = [outdir EXCEPT ![settings[r].host] = made.dir]
          /\ pc' = [pc EXCEPT ![r] = IF made.ok THEN "seed" ELSE "raised"]
    /\ UNCHANGED <<settings, rng, sim_idx, model, seed, result,
                   log10_variables, labels, files, stderr, oracle_memo, hist>>

\* lines 127-160: the generator is seeded from start_idx, sim_idx starts there
Startup(r) ==
    /\ pc[r] = "seed"
    /\ rng' = [rng EXCEPT ![r] = default_rng(settings[r].start_idx, settings[r].entropy)]
    /\ sim_idx' = [sim_idx EXCEPT ![r] = settings[r].start_idx]
    /\ pc' = [pc EXCEPT ![r] = "while"]
    /\ UNCHANGED <<outdir, settings, model, seed, result, log10_variables, labels, files, stderr,
                   oracle_memo, hist>>

\* line 162: the loop condition
loop_condition_until_equal(idx, st) == idx # st.start_idx + st.batch_size
loop_condition_off_by_one(idx, st) == idx <= st.start_idx + st.batch_size
loop_condition(idx, st) == idx < st.start_idx + st.batch_size

WhileTest(r) ==
    /\ pc[r] = "while"
    /\ pc' = [pc EXCEPT ![r] = IF loop_condition(sim_idx[r], settings[r])
                               THEN "draw_model" ELSE "done"]
    /\ UNCHANGED <<outdir, settings, rng, sim_idx, model, seed, result, log10_variables, labels, files,
                   stderr, oracle_memo, hist>>

\* line 168
DrawModel(r) ==
    /\ pc[r] = "draw_model"
    /\ LET d == draw_bdb_model(settings[r].priors, rng[r]) IN
          /\ model' = [model EXCEPT ![r] = d[1]]
          /\ rng' = [rng EXCEPT ![r] = d[2]]
    /\ hist' = [hist EXCEPT ![r].attempts = @ + 1,
                            ![r].last = [idx |-> sim_idx[r], outcome |-> "pending"]]
    /\ pc' = [pc EXCEPT ![r] = "draw_seed"]
    /\ UNCHANGED <<outdir, settings, sim_idx, seed, result, log10_variables, labels, files, stderr,
                   oracle_memo>>

\* line 170
DrawSeed(r) ==
    /\ pc[r] = "draw_seed"
    /\ LET d == next_double(rng[r]) IN
          /\ seed' = [seed EXCEPT ![r] = d[1]]
          /\ rng' = [rng EXCEPT ![r] = d[2]]
    /\ pc' = [pc EXCEPT ![r] = "oracle"]
    /\ UNCHANGED <<outdir, settings, sim_idx, model, result, log10_variables, labels, files, stderr,
                   oracle_memo, hist>>

\* the arguments of the call with the seed left out
oracle_inputs_no_seed(r) ==
    << 0, model[r], RootState, settings[r].max_extant_leaves,
       settings[r].max_extinct_leaves, settings[r].max_total_leaves,
       settings[r].max_time >>

\* the arguments of the call of lines 172-180
oracle_inputs(r) ==
    << seed[r], model[r], RootState, settings[r].max_extant_leaves,
       settings[r].max_extinct_leaves, settings[r].max_total_leaves,
       settings[r].max_time >>

\* lines 172-180: the oracle returns some result.  At most MaxRejects of the
\* results of one run are ones the filter rejects.  When two runs are compared
\* (pure_oracle), the oracle answers a call as it answered the other run's
\* call with the same arguments: oracle_memo holds the answers one run has
\* received and the other has not yet asked for.  Every oracle that is a
\* function of its arguments behaves so.
CallOracle(r) ==
    /\ pc[r] = "oracle"
    /\ \E res \in OracleResults :
          /\ Decide(res, settings[r]) \in Rejections => hist[r].rejected < MaxRejects
          /\ IF settings[r].pure_oracle
             THEN IF oracle_inputs(r) \in DOMAIN oracle_memo
                  THEN /\ res = oracle_memo[oracle_inputs(r)]
                       /\ oracle_memo' =
                             [i \in (DOMAIN oracle_memo) \ {oracle_inputs(r)} |->
                                 oracle_memo[i]]
                  ELSE oracle_memo' =
                          [i \in (DOMAIN oracle_memo) \cup {oracle_inputs(r)} |->
                              IF i = oracle_inputs(r) THEN res ELSE oracle_memo[i]]
             ELSE UNCHANGED oracle_memo
          /\ result' = [result EXCEPT ![r] = res]
    /\ hist' = [hist EXCEPT ![r].oracle_calls = @ + 1]
    /\ pc' = [pc EXCEPT ![r] = "filter"]
    /\ UNCHANGED <<outdir, settings, rng, sim_idx, model, seed, log10_variables, labels, files, stderr>>

\* The locals of an iteration that has ended are dead: the next iteration
\* assigns each of them before reading it.
EndIteration(r) ==
    /\ model' = [model EXCEPT ![r] = Unset]
    /\ seed' = [seed EXCEPT ![r] = Unset]
    /\ result' = [result EXCEPT ![r] = Unset]
    /\ log10_variables' = [log10_variables EXCEPT ![r] = Unset]
    /\ labels' = [labels EXCEPT ![r] = Unset]

\* where main goes on after the filter: `continue` re-enters the loop, the
\* AssertionError of line 209 leaves main, otherwise line 214 is next
after_filter_passes_assert(d) ==
    IF d \in Rejections THEN "while" ELSE "labels"
after_filter_gives_up(d) ==
    IF d = "accept" THEN "labels" ELSE "aborted"
after_filter_retries_assert(d) ==
    IF d \in Rejections \/ d = "assert" THEN "while" ELSE "labels"
after_filter(d) ==
    IF d \in Rejections THEN "while"
    ELSE IF d = "assert" THEN "aborted"
    ELSE "labels"

\* lines 182-209: a rejected attempt continues the loop, a failed assertion
\* ends main, an accepted attempt goes on to the labels
AcceptanceFilter(r) ==
    /\ pc[r] = "filter"
    /\ LET d == Decide(result[r], settings[r]) IN
          /\ hist' = [hist EXCEPT
                         ![r].last.outcome = d,
                         ![r].rejected = IF d \in Rejections THEN @ + 1 ELSE @]
          /\ stderr' = [stderr EXCEPT ![r] = @ \o Diagnostic(result[r], settings[r])]
          /\ pc' = [pc EXCEPT ![r] = after_filter(d)]
          /\ IF d \in Rejections THEN EndIteration(r)
                                 ELSE UNCHANGED <<model, seed, result,
                                                  log10_variables, labels>>
    /\ UNCHANGED <<outdir, settings, rng, sim_idx, files, oracle_memo>>

\* line 214: a ValueError of math.log10 ends main
ComputeLabels(r) ==
    /\ pc[r] = "labels"
    /\ LET l == get_log10_model_parameters(model[r]) IN
          /\ log10_variables' = [log10_variables EXCEPT ![r] = l.p]
          /\ pc' = [pc EXCEPT ![r] = IF l.raised THEN "raised" ELSE "reduce"]
    /\ UNCHANGED <<outdir, settings, rng, sim_idx, model, seed, result, labels, files,
                   stderr, oracle_memo, hist>>

\* lines 215-217: a KeyError of the dict comprehension ends main
ReduceLabels(r) ==
    /\ pc[r] = "reduce"
    /\ LET red == reduce_variables(log10_variables[r], settings[r].label_names) IN
          /\ labels' = [labels EXCEPT ![r] = red.p]
          /\ pc' = [pc EXCEPT ![r] = IF red.raised THEN "raised" ELSE "write_labels"]
    /\ UNCHANGED <<outdir, settings, rng, sim_idx, model, seed, result, log10_variables,
                   files, stderr, oracle_memo, hist>>

\* the attempt of run r that is writing: its number and the extant leaf count
\* of its oracle result
Writer(r) == [attempt |-> hist[r].attempts,
              extant |-> number_of_extant_leaves(result[r].root)]

\* open(path, 'w') and the writes: an OSError of open ends main with nothing
\* written, otherwise main goes on at `next`
WriteFile(r, path, content, next) ==
    IF can_open(outdir[settings[r].host])
    THEN /\ files' = [files EXCEPT ![r] = write_file(@, path, content)]
         /\ hist' = [hist EXCEPT ![r].writer = write_file(@, path, Writer(r))]
         /\ pc' = [pc EXCEPT ![r] = next]
    ELSE /\ pc' = [pc EXCEPT ![r] = "raised"]
         /\ UNCHANGED <<files, hist>>

\* line 218
WriteLabels(r) ==
    /\ pc[r] = "write_labels"
    /\ WriteFile(r, labels_path(settings[r], sim_idx[r]), stream_variables(labels[r]),
                 "write_tips")
    /\ UNCHANGED <<outdir, settings, rng, sim_idx, model, seed, result, log10_variables, labels, stderr,
                   oracle_memo>>

\* line 219
WriteTipStates(r) ==
    /\ pc[r] = "write_tips"
    /\ WriteFile(r, data_path(settings[r], sim_idx[r]),
                 stream_tip_states(result[r].root, TRUE), "write_tree")
    /\ UNCHANGED <<outdir, settings, rng, sim_idx, model, seed, result, log10_variables, labels, stderr,
                   oracle_memo>>

\* lines 220-225
WriteTree(r) ==
    /\ pc[r] = "write_tree"
    /\ WriteFile(r, tree_path(settings[r], sim_idx[r]),
                 stream_tree(result[r].root, settings[r].include_root_annotations),
                 "advance")
    /\ UNCHANGED <<outdir, settings, rng, sim_idx, model, seed, result, log10_variables, labels, stderr,
                   oracle_memo>>

\* line 226: sim_idx += 1
next_idx_stays(idx) == idx
next_idx_skips(idx) == idx + 2
next_idx(idx) == idx + 1

Advance(r) ==
    /\ pc[r] = "advance"
    /\ sim_idx' = [sim_idx EXCEPT ![r] = next_idx(@)]
    /\ pc' = [pc EXCEPT ![r] = "while"]
    /\ EndIteration(r)
    /\ UNCHANGED <<outdir, settings, rng, files, stderr, oracle_memo, hist>>

Step(r) ==
    \/ ParseArgs(r)
    \/ ExistsCheck(r)
    \/ Mkdir(r)
    \/ Startup(r)
    \/ WhileTest(r)
    \/ DrawModel(r)
    \/ DrawSeed(r)
    \/ CallOracle(r)
    \/ AcceptanceFilter(r)
    \/ ComputeLabels(r)
    \/ ReduceLabels(r)
    \/ WriteLabels(r)
    \/ WriteTipStates(r)
    \/ WriteTree(r)
    \/ Advance(r)

Next == \E r \in Runs : Step(r)

Spec == Init /\ [][Next]_vars

\* Two runs of the same command line and settings, each on its own host with
\* its own output directory contents and error stream, against one oracle whose result is a
\* function of its arguments.  The operating system's entropy differs from
\* one run to the other.
PairSettings == { [st EXCEPT !.pure_oracle = TRUE] : st \in BatchSettings }

InitPair ==
    /\ Fresh
    /\ outdir = NoDirectory
    /\ pc = [r \in Runs |-> "start"]
    /\ \E st \in PairSettings :
          settings = [r \in Runs |-> [st EXCEPT !.entropy = r, !.host = r]]

\* how far run r has come: its attempts, and its position within the latest
Progress(r) ==
    13 * hist[r].attempts +
    (CASE pc[r] = "start" -> 0
       [] pc[r] = "exists" -> 1
       [] pc[r] = "mkdir" -> 2
       [] pc[r] = "seed" -> 3
       [] pc[r] = "draw_seed" -> 2
       [] pc[r] = "oracle" -> 3
       [] pc[r] = "filter" -> 4
       [] pc[r] = "labels" -> 5
       [] pc[r] = "reduce" -> 6
       [] pc[r] = "write_labels" -> 7
       [] pc[r] = "write_tips" -> 8
       [] pc[r] = "write_tree" -> 9
       [] pc[r] = "advance" -> 10
       [] pc[r] = "while" -> 11
       [] pc[r] = "draw_model" -> 12
       [] OTHER -> 13)

\* The two runs do not interact, so one schedule stands for all: run 1 takes a
\* step, then run 2 takes steps until it has come as far.
NextPair ==
    \/ Step(1) /\ Progress(1) <= Progress(2)
    \/ Step(2) /\ Progress(2) < Progress(1)

SpecPair == InitPair /\ [][NextPair]_vars

\* One run that keeps running: main is sequential code, so a step that can be
\* taken is taken.  The oracle's rejections are bounded by MaxRejects.
SpecLive == Init /\ [][Next]_vars /\ WF_vars(Step(1))

\* Prior sets other than the defaults: each of the five distributions either
\* fixed or uniform.
PriorSets ==
    [ state_rate          : {FixedRV(1), uniform(1, 2)},
      log_birth_rate      : {FixedRV(0 - 1), uniform(0 - 2, 2)},
      log_death_rate_prop : {FixedRV(0 - 1), uniform(0 - 2, 2)},
      burst_rate_prop     : {FixedRV(5 * (Scale \div 10)),
                             uniform(2 * (Scale \div 10), 8 * (Scale \div 10))},
      burst_prob          : {FixedRV(5 * (Scale \div 10)),
                             uniform(4 * (Scale \div 10), 6 * (Scale \div 10))} ]

\* One run of one slot under main's configuration with any of the prior sets.
InitDraw ==
    /\ Fresh
    /\ outdir = NoDirectory
    /\ pc = [r \in Runs |-> IF r = 1 THEN "start" ELSE "off"]
    /\ \E s \in StartIdxs, p \in PriorSets :
          settings = [r \in Runs |->
                         IF r = 1 THEN [main_settings(s, 1) EXCEPT !.priors = p]
                                  ELSE main_settings(0, 0)]

SpecDraw == InitDraw /\ [][Next]_vars

\* values explored for label_names: empty (None and [] alike have a false
\* truth value at line 216, the only place that reads it: both are <<>>), all
\* eleven names, one name, two names in either order, a name twice, and a
\* name that is no key of log10_variables
LabelChoices ==
    { <<>>, label_names,
      <<"log10_burst_rate">>,
      <<"log10_state_rate_10", "log10_birth_rate_0">>,
      <<"log10_birth_rate_0", "log10_state_rate_10">>,
      <<"log10_death_rate_1", "log10_burst_prob_0", "log10_death_rate_1">>,
      <<"log10_burst_rate", "log10_birth_rate">> }

\* One run under main's configuration with any of the label_names.
InitLabels ==
    /\ Fresh
    /\ outdir = NoDirectory
    /\ pc = [r \in Runs |-> IF r = 1 THEN "start" ELSE "off"]
    /\ \E s \in StartIdxs, b \in 1..MaxBatch, l \in LabelChoices :
          settings = [r \in Runs |->
                         IF r = 1 THEN [main_settings(s, b) EXCEPT !.label_names = l]
                                  ELSE main_settings(0, 0)]

SpecLabels == InitLabels /\ [][Next]_vars

\* Prior sets some of which give a value that has no logarithm: a state_rate
\* fixed at 0 or uniform from 0, a burst_rate_prop fixed below 0, a burst_prob
\* fixed at 0.
NoLogPriorSets ==
    [ state_rate          : {FixedRV(1), FixedRV(0), uniform(0, 2)},
      log_birth_rate      : {FixedRV(0 - 1)},
      log_death_rate_prop : {FixedRV(0 - 1)},
      burst_rate_prop     : {FixedRV(5 * (Scale \div 10)), FixedRV(0 - 5 * (Scale \div 10))},
      burst_prob          : {FixedRV(5 * (Scale \div 10)), FixedRV(0)} ]

\* One run under main's configuration with any of these prior sets, with
\* main's label_names or with a name that is no derived label.
InitLog10 ==
    /\ Fresh
    /\ outdir = NoDirectory
    /\ pc = [r \in Runs |-> IF r = 1 THEN "start" ELSE "off"]
    /\ \E s \in StartIdxs, b \in 1..MaxBatch, p \in NoLogPriorSets,
          l \in {label_names, <<"log10_burst_rate", "log10_birth_rate">>} :
          settings = [r \in Runs |->
                         IF r = 1 THEN [main_settings(s, b) EXCEPT !.priors = p,
                                                                   !.label_names = l]
                                  ELSE main_settings(0, 0)]

SpecLog10 == InitLog10 /\ [][Next]_vars

\* prefixes explored, as text: two plain names, one of which ends in a digit,
\* and an absolute path into the output directory
PrefixChoices ==
    { <<"s">>, <<"s", "1">>, <<"/", "o", "/", "s">> }

\* Two driver instances started on the same output directory /o with
\* different prefixes, each for one index: the first for index 10, the second
\* for index 0 or 10.  Each has its own generator, locals and error stream,
\* and files[r] holds what instance r has written.
InitShared ==
    /\ Fresh
    /\ outdir = NoDirectory
    /\ pc = [r \in Runs |-> "start"]
    /\ \E p1 \in PrefixChoices, p2 \in PrefixChoices, s2 \in {0, 10} :
          /\ p1 # p2
          /\ settings = [r \in Runs |->
                            [main_settings(IF r = 1 THEN 10 ELSE s2, 1)
                               EXCEPT !.out_path = <<"/", "o">>,
                                      !.prefix = IF r = 1 THEN p1 ELSE p2,
                                      !.priors = FixedPriors]]

SpecShared == InitShared /\ [][Next]_vars

\* texts explored for the start index and the batch size argument
StartTexts == { <<"0">>, <<"1">>, <<"x">>, <<"1", ".", "5">>, <<>> }
BatchTexts == { <<"1">>, <<"2">>, <<"-", "1">>, <<"t", "w", "o">>, <<"1", ".", "0">> }

\* the settings of a run whose third and fourth argument are the texts a3, a4
cli_settings(a3, a4) ==
    [main_settings(IF int(a3).ok THEN int(a3).value ELSE 0,
                   IF int(a4).ok THEN int(a4).value ELSE 0)
        EXCEPT !.argv = <<a3, a4>>]

\* One run with any of the argument texts, on a host where out_path is in any
\* of the states.
InitInput ==
    /\ Fresh
    /\ pc = [r \in Runs |-> IF r = 1 THEN "start" ELSE "off"]
    /\ \E a3 \in StartTexts, a4 \in BatchTexts, d \in DirStates :
          /\ settings = [r \in Runs |-> IF r = 1 THEN cli_settings(a3, a4)
                                                 ELSE main_settings(0, 0)]
          /\ outdir = [h \in Hosts |-> IF h = 1 THEN d ELSE "absent"]

SpecInput == InitInput /\ [][Next]_vars

(* ======================================================================= *)
(* Properties                                                              *)
(* ======================================================================= *)

\* indices a run can reach
Indices == 0..(MaxBatch + 4)

\* the file of run r named {prefix}.{i}{ext} in the output directory
Named(r, i, ext) == <<settings[r].out_path, settings[r].prefix, i, ext>>

\* the indices whose three files all exist
CompleteTriples(r) ==
    { i \in Indices : /\ Named(r, i, ".tre") \in DOMAIN files[r]
                      /\ Named(r, i, ".dat.csv") \in DOMAIN files[r]
                      /\ Named(r, i, ".labels.csv") \in DOMAIN files[r] }

\* the indices with at least one file
TouchedIndices(r) == { p[3] : p \in DOMAIN files[r] }

\* a limit is exceeded: it is set (not None, not 0) and the count is above it
Over(limit, count) == limit # None /\ limit # 0 /\ count > limit

\* the attempt with oracle result res is one the filter rejects: it did not
\* survive and extinct trees are not kept, or strict mode is on and one of the
\* three limits is exceeded
RejectedByFilter(res, st) ==
    \/ ~res.survived /\ ~st.keep_extinct_trees
    \/ /\ st.max_leaves_strict
       /\ \/ Over(st.max_total_leaves, number_of_leaves(res.root))
          \/ Over(st.max_extant_leaves, number_of_extant_leaves(res.root))
          \/ Over(st.max_extinct_leaves, number_of_extinct_leaves(res.root))

\* run r takes the filter step
FilterStep(r) == pc[r] = "filter" /\ pc'[r] # "filter"

\* C1: every file a run has written was written by an attempt whose oracle
\* result had exactly tree_width extant leaves, under every setting of
\* keep_extinct_trees, max_leaves_strict and the three limits.
C1_WrittenHasWidth ==
    \A r \in Runs : \A p \in DOMAIN files[r] :
        hist[r].writer[p].extant = settings[r].tree_width

\* a file was written with extinct trees kept and strict mode off
C1_Witness ==
    /\ DOMAIN files[1] # {}
    /\ settings[1].keep_extinct_trees
    /\ ~settings[1].max_leaves_strict

\* C2: the filter step of a rejected attempt leaves sim_idx and the files as
\* they are and re-enters the loop; the loop is not left after a rejection and
\* the attempt that follows is made for the same sim_idx.
C2_RejectionFrame ==
    [][\A r \in Runs :
        /\ (FilterStep(r) /\ RejectedByFilter(result[r], settings[r]))
              => /\ sim_idx'[r] = sim_idx[r]
                 /\ files'[r] = files[r]
                 /\ pc'[r] = "while"
        /\ (pc[r] = "while" /\ pc'[r] # "while"
                 /\ hist[r].last.outcome \in Rejections)
              => pc'[r] = "draw_model" /\ sim_idx'[r] = sim_idx[r]
        /\ (pc[r] = "draw_model" /\ pc'[r] # "draw_model"
                 /\ hist[r].last.outcome \in Rejections)
              => hist'[r].last.idx = hist[r].last.idx
      ]_vars

\* an attempt is under way for an index whose previous attempt was rejected,
\* with files of an earlier index present
C2_Witness ==
    /\ pc[1] = "oracle"
    /\ hist[1].rejected >= 1
    /\ hist[1].attempts >= 3
    /\ DOMAIN files[1] # {}

\* C3: between attempts (everywhere but between the write of the tree file and
\* the increment of sim_idx) the indices with a complete triple are exactly
\* start_idx .. sim_idx - 1, and no index at or above start_idx + batch_size
\* ever has a triple.
C3_Contiguous ==
    \A r \in Runs :
        /\ (rng[r] # Unset /\ pc[r] # "advance")
              => CompleteTriples(r) = settings[r].start_idx..(sim_idx[r] - 1)
        /\ \A i \in CompleteTriples(r) :
              i < settings[r].start_idx + settings[r].batch_size

\* two triples are complete after a rejected attempt
C3_Witness ==
    /\ pc[1] = "while"
    /\ hist[1].rejected >= 1
    /\ Cardinality(CompleteTriples(1)) = 2

\* C4: a run with batch_size >= 0 that leaves the loop has sim_idx =
\* start_idx + batch_size and has written exactly the batch_size triples of
\* start_idx .. start_idx + batch_size - 1, whatever was rejected on the way.
C4_NormalEnd ==
    \A r \in Runs :
        (pc[r] = "done" /\ settings[r].batch_size >= 0)
           => /\ sim_idx[r] = settings[r].start_idx + settings[r].batch_size
              /\ CompleteTriples(r) =
                    settings[r].start_idx..(settings[r].start_idx + settings[r].batch_size - 1)
              /\ Cardinality(DOMAIN files[r]) = 3 * settings[r].batch_size

\* a run of two slots ended after two rejections
C4_Witness ==
    /\ pc[1] = "done"
    /\ settings[1].batch_size = 2
    /\ hist[1].rejected = 2

\* the result passes the survival rule and the strict-mode rules with an
\* extant leaf count other than tree_width
WrongWidthPasses(res, st) ==
    /\ ~RejectedByFilter(res, st)
    /\ number_of_extant_leaves(res.root) # st.tree_width

\* C5: the filter step of an attempt that passes the rules with a wrong width
\* takes the run to the aborted state without touching the files or sim_idx;
\* an aborted run has no file of the current index, keeps the triples of the
\* earlier indices, and never moves again: no attempt, no oracle call, no
\* write, no change of sim_idx.
C5_FatalAbort ==
    [][\A r \in Runs :
        /\ (FilterStep(r) /\ WrongWidthPasses(result[r], settings[r]))
              => /\ pc'[r] = "aborted"
                 /\ files'[r] = files[r]
                 /\ sim_idx'[r] = sim_idx[r]
                 /\ sim_idx[r] \notin TouchedIndices(r)
                 /\ CompleteTriples(r) = settings[r].start_idx..(sim_idx[r] - 1)
        /\ pc[r] = "aborted"
              => /\ pc'[r] = "aborted"
                 /\ files'[r] = files[r]
                 /\ sim_idx'[r] = sim_idx[r]
                 /\ hist'[r] = hist[r]
                 /\ rng'[r] = rng[r]
      ]_vars

\* a run aborted at its second index
C5_Witness ==
    /\ pc[1] = "aborted"
    /\ sim_idx[1] = settings[1].start_idx + 1
    /\ Cardinality(DOMAIN files[1]) = 3

\* The statement of C6 as claimed: in strict mode a result with tree_width + 1
\* extant leaves never takes the run to the failed assertion, whatever
\* max_extant_leaves is.
C6_AsClaimed ==
    \A r \in Runs :
        (pc[r] = "aborted" /\ settings[r].max_leaves_strict)
           => number_of_extant_leaves(result[r].root) # settings[r].tree_width + 1

\* C6: in strict mode with max_extant_leaves set, not 0 and not above
\* tree_width, the filter step of a result with tree_width + 1 extant leaves is
\* a rejection: the loop is re-entered with sim_idx and the files unchanged.
C6_OverageRetried ==
    [][\A r \in Runs :
        (/\ FilterStep(r)
         /\ settings[r].max_leaves_strict
         /\ settings[r].max_extant_leaves # None
         /\ settings[r].max_extant_leaves # 0
         /\ settings[r].max_extant_leaves <= settings[r].tree_width
         /\ number_of_extant_leaves(result[r].root) = settings[r].tree_width + 1)
        => /\ pc'[r] = "while"
           /\ sim_idx'[r] = sim_idx[r]
           /\ files'[r] = files[r]
      ]_vars

\* a surviving tree of tree_width + 1 extant leaves has just been rejected
\* under max_extant_leaves = tree_width
C6_Witness ==
    /\ pc[1] = "while"
    /\ settings[1].max_leaves_strict
    /\ settings[1].max_extant_leaves = settings[1].tree_width
    /\ settings[1].keep_extinct_trees
    /\ hist[1].last.outcome = "max_extant_leaves"
    /\ stderr[1] # <<>>
    /\ stderr[1][Len(stderr[1])].leaves = settings[1].tree_width + 1

Exceeded(res, st) ==
    { l \in {"max_total_leaves", "max_extant_leaves", "max_extinct_leaves"} :
        \/ l = "max_total_leaves"
              /\ Over(st.max_total_leaves, number_of_leaves(res.root))
        \/ l = "max_extant_leaves"
              /\ Over(st.max_extant_leaves, number_of_extant_leaves(res.root))
        \/ l = "max_extinct_leaves"
              /\ Over(st.max_extinct_leaves, number_of_extinct_leaves(res.root)) }

DrawsPerModel(priors) ==
    Cardinality({ f \in {"state_rate", "log_birth_rate", "log_death_rate_prop",
                         "burst_rate_prop", "burst_prob"} :
                    priors[f].kind # "fixed" })

\* the generator of a run started at start that has made k whole attempts
AfterAttempts(start, priors, k) ==
    [seed |-> start, pos |-> k * (DrawsPerModel(priors) + 1)]

\* C9: the generator is the stream of start_idx throughout; its position is
\* the number of values consumed by the attempts made so far, so every attempt
\* moves it on and none rewinds it; the model and the oracle seed of the k-th
\* attempt are those drawn from the stream of start_idx after k - 1 attempts,
\* whatever sim_idx is.
C9_OneStream ==
    \A r \in Runs :
        rng[r] # Unset =>
            LET st == settings[r]
                k == hist[r].attempts
                before == AfterAttempts(st.start_idx, st.priors, k - 1)
            IN  /\ rng[r].seed = st.start_idx
                /\ pc[r] = "draw_seed"
                      => rng[r].pos = before.pos + DrawsPerModel(st.priors)
                /\ pc[r] # "draw_seed"
                      => rng[r] = AfterAttempts(st.start_idx, st.priors, k)
                /\ pc[r] \in {"oracle", "filter"}
                      => /\ model[r] = draw_bdb_model(st.priors, before)[1]
                         /\ seed[r] = Stream(st.start_idx,
                                             before.pos + DrawsPerModel(st.priors))

\* the third attempt of a run, made for the index of the first
C9_Witness ==
    /\ pc[1] = "filter"
    /\ hist[1].attempts = 3
    /\ sim_idx[1] = settings[1].start_idx
    /\ settings[1].priors = Priors

\* the two runs are at the same point of the same attempt
Aligned == pc[1] = pc[2] /\ hist[1].attempts = hist[2].attempts

\* C8: two runs with the same start_idx, batch_size, priors and settings,
\* against an oracle that is a function of its arguments, are in the same
\* state whenever they are at the same point of the same attempt (same model,
\* same seed, same oracle result, same outcome, same index, same error
\* stream), and the contents of all their files are the same when both have ended.
C8_Deterministic ==
    /\ Aligned
          => /\ rng[1] = rng[2]
             /\ sim_idx[1] = sim_idx[2]
             /\ model[1] = model[2]
             /\ seed[1] = seed[2]
             /\ result[1] = result[2]
             /\ log10_variables[1] = log10_variables[2]
             /\ labels[1] = labels[2]
             /\ hist[1] = hist[2]
             /\ stderr[1] = stderr[2]
             /\ files[1] = files[2]
    /\ (pc[1] \in {"done", "aborted", "raised"} /\ pc[2] \in {"done", "aborted", "raised"})
          => pc[1] = pc[2] /\ files[1] = files[2] /\ hist[1].attempts = hist[2].attempts

\* both runs have ended normally after a rejection, with two triples each
C8_Witness ==
    /\ pc[1] = "done" /\ pc[2] = "done"
    /\ hist[1].rejected >= 1
    /\ Cardinality(DOMAIN files[2]) = 6
    /\ settings[1].priors = Priors

\* The statement of C10 as claimed: a run that keeps running, whose oracle
\* rejects only finitely often and never makes the assertion fail, reaches
\* sim_idx = start_idx + batch_size at the end of the loop.
C10_AsClaimed ==
    [](pc[1] \notin {"aborted", "raised"})
       => <>(/\ pc[1] = "done"
             /\ sim_idx[1] = settings[1].start_idx + settings[1].batch_size)

\* C10: with batch_size >= 0, a run that keeps running, whose oracle rejects
\* only finitely often and never makes the assertion fail, leaves the loop
\* with sim_idx = start_idx + batch_size.
C10_Terminates ==
    (settings[1].batch_size >= 0 /\ [](pc[1] \notin {"aborted", "raised"}))
       => <>(/\ pc[1] = "done"
             /\ sim_idx[1] = settings[1].start_idx + settings[1].batch_size)

\* a run of two slots has ended after as many rejections as the oracle makes
C10_Witness ==
    /\ pc[1] = "done"
    /\ settings[1].batch_size = MaxBatch
    /\ hist[1].rejected = MaxRejects
    /\ sim_idx[1] = settings[1].start_idx + MaxBatch

\* every attempt run r has finished so far was rejected
AllRejected(r) ==
    /\ hist[r].last.outcome \in Rejections \cup {"pending", "none"}
    /\ hist[r].rejected =
          hist[r].attempts - (IF hist[r].last.outcome = "pending" THEN 1 ELSE 0)

\* C11: however many attempts have been rejected, the driver goes on: after a
\* rejection it is in the loop, at the index of the rejected attempt, with the
\* loop condition true and no file of that index; and a run of batch_size >= 1
\* whose attempts were all rejected has not ended, has not aborted, is still
\* at start_idx and has written nothing.
C11_NoCap ==
    \A r \in Runs :
        /\ hist[r].last.outcome \in Rejections
              => /\ pc[r] \in {"while", "draw_model"}
                 /\ sim_idx[r] = hist[r].last.idx
                 /\ sim_idx[r] < settings[r].start_idx + settings[r].batch_size
                 /\ sim_idx[r] \notin TouchedIndices(r)
        /\ (settings[r].batch_size >= 1 /\ rng[r] # Unset /\ AllRejected(r))
              => /\ pc[r] \in {"while", "draw_model", "draw_seed", "oracle", "filter"}
                 /\ sim_idx[r] = settings[r].start_idx
                 /\ files[r] = <<>>

\* as many attempts as the oracle rejects in one run were rejected in a row at
\* the first index, and one more attempt is under way there
C11_Witness ==
    /\ pc[1] = "oracle"
    /\ hist[1].rejected = MaxRejects
    /\ hist[1].attempts = MaxRejects + 1
    /\ sim_idx[1] = settings[1].start_idx
    /\ hist[1].last.idx = settings[1].start_idx

\* the generator run r handed to draw_bdb_model in its latest attempt
Before(r) ==
    AfterAttempts(settings[r].start_idx, settings[r].priors, hist[r].attempts - 1)

\* C12: the model of every attempt has birth_rate_1 = birth_rate_0, equal
\* death rates, equal burst probabilities, both off-diagonal generator entries
\* equal to the state_rate drawn from the prior, and generator rows that sum
\* to zero; the items state_rate_01 and state_rate_10 of get_model_parameters
\* both carry that state_rate.
C12_Symmetric ==
    \A r \in Runs :
        model[r] # Unset =>
            LET m == model[r]
                drawn == rvs(settings[r].priors.state_rate, Before(r))[1]
                items == get_model_parameters(m)
            IN  /\ m.birth_rates[2] = m.birth_rates[1]
                /\ m.death_rates[1] = m.death_rates[2]
                /\ m.burst_probs[1] = m.burst_probs[2]
                /\ m.q[1][2] = drawn /\ m.q[2][1] = drawn
                /\ m.q[1][1] + m.q[1][2] = 0
                /\ m.q[2][1] + m.q[2][2] = 0
                /\ items[1] = <<"state_rate_01", drawn>>
                /\ items[2] = <<"state_rate_10", drawn>>

\* a model drawn in a second attempt from priors whose state_rate is uniform,
\* with a state_rate other than the lowest
C12_Witness ==
    /\ pc[1] = "oracle"
    /\ hist[1].attempts = 2
    /\ settings[1].priors.state_rate.kind = "uniform"
    /\ model[1].q[1][2] = 2

\* the value the prior in field f gives in the latest attempt of run r: the
\* generator has by then served the uniform priors among the earlier fields
DrawnValue(r, f, earlier) ==
    LET priors == settings[r].priors
        served == Cardinality({e \in earlier : priors[e].kind = "uniform"})
    IN  rvs(priors[f], [seed |-> Before(r).seed, pos |-> Before(r).pos + served])[1]

\* C13: in the model of every attempt the death rate of both states is
\* min(birth_rate_0, birth_rate_1) * 10**log_death_mult, with log_death_mult
\* the value drawn from log_death_rate_prop, and burst_rate is
\* min(birth_rate_0, birth_rate_1) * burst_mult, with burst_mult the value
\* drawn from burst_rate_prop, used as it is.
C13_DerivedRates ==
    \A r \in Runs :
        model[r] # Unset =>
            LET m == model[r]
                lowest == IF m.birth_rates[1] <= m.birth_rates[2]
                          THEN m.birth_rates[1] ELSE m.birth_rates[2]
                log_death_mult ==
                    DrawnValue(r, "log_death_rate_prop", {"state_rate", "log_birth_rate"})
                burst_mult ==
                    DrawnValue(r, "burst_rate_prop",
                               {"state_rate", "log_birth_rate", "log_death_rate_prop"})
            IN  /\ m.death_rates[1] = (lowest * Pow10(log_death_mult)) \div Scale
                /\ m.death_rates[2] = (lowest * Pow10(log_death_mult)) \div Scale
                /\ m.burst_rate = (lowest * burst_mult) \div Scale

\* a model whose death multiplier is 10**-2 and whose burst multiplier is 0.6,
\* both drawn from uniform priors after a uniform state_rate
C13_Witness ==
    /\ pc[1] = "oracle"
    /\ settings[1].priors.state_rate.kind = "uniform"
    /\ settings[1].priors.log_death_rate_prop.kind = "uniform"
    /\ settings[1].priors.burst_rate_prop.kind = "uniform"
    /\ DrawnValue(1, "log_death_rate_prop", {"state_rate", "log_birth_rate"}) = 0 - 2
    /\ DrawnValue(1, "burst_rate_prop",
                  {"state_rate", "log_birth_rate", "log_death_rate_prop"})
          = 6 * (Scale \div 10)
    /\ model[1].burst_rate = (model[1].birth_rates[1] * 6) \div 10

\* the names the labels file of run r must carry: the configured ones, or all
\* the derived log10 labels when none is configured
ExpectedNames(r) ==
    IF settings[r].label_names = <<>>
    THEN {"log10_" \o get_model_parameters(model[r])[i][1] : i \in 1..11}
    ELSE {settings[r].label_names[i] : i \in 1..Len(settings[r].label_names)}

\* the log10 label called name of the model m
LabelValue(m, name) ==
    LET items == get_model_parameters(m)
        i == CHOOSE j \in 1..Len(items) : "log10_" \o items[j][1] = name
    IN  [log10_of |-> items[i][2]]

\* C14: the labels file just written for the current index has two lines, a
\* header and one data row of the same length; the header is strictly
\* ascending in string order (so it is the same for every order of
\* label_names), its names are exactly the configured label_names, or all
\* eleven derived log10 labels when label_names is empty, and the i-th value
\* of the row is the log10 label of the model that the i-th header name calls.
C14_LabelsFile ==
    \A r \in Runs :
        pc[r] \in {"write_tips", "write_tree", "advance"} =>
            /\ Named(r, sim_idx[r], ".labels.csv") \in DOMAIN files[r]
            /\ LET f == files[r][Named(r, sim_idx[r], ".labels.csv")]
                    header == f[1]
                    row == f[2]
               IN  /\ Len(f) = 2
                   /\ Len(row) = Len(header)
                   /\ \A i, j \in 1..Len(header) :
                         i < j => StrLess(header[i], header[j])
                   /\ {header[i] : i \in 1..Len(header)} = ExpectedNames(r)
                   /\ settings[r].label_names = <<>> => Len(header) = 11
                   /\ \A i \in 1..Len(header) :
                         row[i] = LabelValue(model[r], header[i])

\* a labels file of two names was written under label_names listing them in
\* descending order
C14_Witness ==
    /\ pc[1] = "write_tips"
    /\ settings[1].label_names = <<"log10_state_rate_10", "log10_birth_rate_0">>
    /\ files[1][Named(1, sim_idx[1], ".labels.csv")][1]
          = <<"log10_birth_rate_0", "log10_state_rate_10">>

\* the text t is a tip-data table of the tree root: the header taxa,data, then
\* one row per leaf in leaf_iter order with the leaf's label and, as data, 0
\* in all-zeros mode and the leaf's state otherwise
TipTable(t, root, all_zeros) ==
    /\ Len(t) = 1 + Len(root.leaves)
    /\ t[1] = <<"taxa", "data">>
    /\ \A i \in 1..Len(root.leaves) :
          /\ t[i + 1][1] = root.leaves[i].label
          /\ t[i + 1][2] = (IF all_zeros THEN 0 ELSE root.leaves[i].leafward_state)

\* C15: stream_tip_states turns every tree the oracle returns into its
\* tip-data table, in either mode; and the tip-data file the driver has just
\* written for the current index is the all-zeros table of the accepted tree.
C15_TipData ==
    \A r \in Runs :
        /\ result[r] # Unset
              => \A all_zeros \in BOOLEAN :
                    TipTable(stream_tip_states(result[r].root, all_zeros),
                             result[r].root, all_zeros)
        /\ pc[r] \in {"write_tree", "advance"}
              => /\ Named(r, sim_idx[r], ".dat.csv") \in DOMAIN files[r]
                 /\ TipTable(files[r][Named(r, sim_idx[r], ".dat.csv")],
                             result[r].root, TRUE)

\* the tip-data file of a tree with extinct leaves and a leaf in state 1 was
\* written
C15_Witness ==
    /\ pc[1] = "write_tree"
    /\ number_of_extinct_leaves(result[1].root) = MaxExtinct
    /\ result[1].root.leaves[1].leafward_state = 1
    /\ files[1][Named(1, sim_idx[1], ".dat.csv")][2] = <<1, 0>>

\* The statement of C16 as claimed: two instances in one output directory
\* with different prefixes never write a file of the same path.
C16_AsClaimed ==
    \A a \in DOMAIN files[1], b \in DOMAIN files[2] : path_text(a) # path_text(b)

\* the prefix is not an absolute path
Relative(prefix) == prefix = <<>> \/ prefix[1] # "/"

\* the endings of the three files of a replicate
Endings == {".tre", ".dat.csv", ".labels.csv"}

\* C16: the files one instance has written have pairwise different paths;
\* when the prefixes of the two instances are different and neither is an
\* absolute path, no path written by one is a path written by the other, at
\* any point of any interleaving, and the paths of two different (prefix,
\* index, ending) triples over these prefixes are different for all indices
\* up to 11.
C16_DisjointPaths ==
    /\ \A r \in Runs : \A a, b \in DOMAIN files[r] :
          a # b => path_text(a) # path_text(b)
    /\ (Relative(settings[1].prefix) /\ Relative(settings[2].prefix))
          => /\ \A a \in DOMAIN files[1], b \in DOMAIN files[2] :
                   path_text(a) # path_text(b)
             /\ (pc[1] = "start" /\ pc[2] = "start")
                   => \A r1, r2 \in Runs : \A i1, i2 \in 0..11 : \A e1, e2 \in Endings :
                         <<r1, i1, e1>> # <<r2, i2, e2>>
                            => path_text(Named(r1, i1, e1)) # path_text(Named(r2, i2, e2))

\* both instances have written their three files, under the prefixes s and
\* s1 and for the indices 10 and 0
C16_Witness ==
    /\ pc[1] = "done" /\ pc[2] = "done"
    /\ settings[1].prefix = <<"s">> /\ settings[2].prefix = <<"s", "1">>
    /\ settings[2].start_idx = 0
    /\ Cardinality(DOMAIN files[1]) = 3
    /\ Cardinality(DOMAIN files[2]) = 3

\* an argument of run r is not an integer, or files cannot be written in its
\* out_path: it is absent and cannot be created, it is a directory in which
\* no file can be created, or it is not a directory
BadInput(r) ==
    \/ ~int(settings[r].argv[1]).ok
    \/ ~int(settings[r].argv[2]).ok
    \/ outdir[settings[r].host] \in {"blocked", "readonly", "file"}

\* The statement of C17 as claimed: a run with a non-integer argument or an
\* out_path that cannot be written never seeds the generator, never draws a
\* model and never calls the oracle.
C17_AsClaimed ==
    \A r \in Runs :
        (pc[r] # "off" /\ BadInput(r))
           => /\ rng[r] = Unset
              /\ hist[r].attempts = 0
              /\ hist[r].oracle_calls = 0

\* C17 as the code has it: a run with a non-integer argument, or whose
\* out_path is absent and cannot be created, never gets past the start of
\* main: it never seeds the generator, draws a model or calls the oracle.  A
\* run with integer arguments whose out_path exists but takes no files fails
\* only at its first write: by then the generator is seeded, the oracle has
\* been called and an attempt has been accepted; no file has been written.
C17_FailurePoints ==
    \A r \in Runs :
        pc[r] # "off" =>
            /\ (\/ ~int(settings[r].argv[1]).ok
                \/ ~int(settings[r].argv[2]).ok
                \/ outdir[settings[r].host] = "blocked")
                  => /\ pc[r] \in {"start", "exists", "mkdir", "raised"}
                     /\ rng[r] = Unset
                     /\ hist[r].attempts = 0
                     /\ hist[r].oracle_calls = 0
            /\ (/\ int(settings[r].argv[1]).ok
                /\ int(settings[r].argv[2]).ok
                /\ outdir[settings[r].host] \in {"readonly", "file"}
                /\ pc[r] = "raised")
                  => /\ rng[r] # Unset
                     /\ hist[r].oracle_calls >= 1
                     /\ hist[r].last.outcome = "accept"
                     /\ files[r] = <<>>

\* a run in a directory that takes no files has failed at its first write,
\* after as many rejected attempts as the oracle makes and an accepted one
C17_Witness ==
    /\ pc[1] = "raised"
    /\ outdir[1] = "readonly"
    /\ hist[1].rejected = MaxRejects
    /\ hist[1].oracle_calls = MaxRejects + 1

\* the limits of run r are those main sets: the extant limit is the width and
\* the other two are absent
MainLimits(r) ==
    /\ settings[r].max_extant_leaves = settings[r].tree_width
    /\ settings[r].max_total_leaves = None
    /\ settings[r].max_extinct_leaves = None

\* the contents of the labels files run r has written
LabelsWritten(r) ==
    { files[r][p] : p \in {q \in DOMAIN files[r] : q[4] = ".labels.csv"} }

\* C18: under main's limits the filter step of a result that survived with
\* exactly tree_width extant leaves accepts it, with no rejection counted and
\* no diagnostic; a run in which nothing was rejected has called the oracle
\* once per attempt and once per index it has passed, so batch_size times when
\* it ends normally; and when every prior is fixed all the labels files the
\* run has written have the same contents.
C18_FixedPriors ==
    /\ [][\A r \in Runs :
            (/\ FilterStep(r)
             /\ MainLimits(r)
             /\ result[r].survived
             /\ number_of_extant_leaves(result[r].root) = settings[r].tree_width)
            => /\ pc'[r] = "labels"
               /\ hist'[r].rejected = hist[r].rejected
               /\ stderr'[r] = stderr[r]
         ]_vars
    /\ [](\A r \in Runs :
            /\ (hist[r].rejected = 0 /\ pc[r] \in {"while", "done"})
                  => hist[r].oracle_calls = sim_idx[r] - settings[r].start_idx
            /\ (hist[r].rejected = 0 /\ pc[r] = "done" /\ settings[r].batch_size >= 0)
                  => hist[r].oracle_calls = settings[r].batch_size
            /\ settings[r].priors = FixedPriors
                  => Cardinality(LabelsWritten(r)) <= 1)

\* a run with fixed priors has ended after one oracle call for each of its
\* two indices, with two labels files of the same contents
C18_Witness ==
    /\ pc[1] = "done"
    /\ settings[1].priors = FixedPriors
    /\ settings[1].batch_size = 2
    /\ hist[1].oracle_calls = 2
    /\ Cardinality({q \in DOMAIN files[1] : q[4] = ".labels.csv"}) = 2
    /\ Cardinality(LabelsWritten(1)) = 1

\* The statement of C19 as claimed: no instance ends at the start of main,
\* before its generator is seeded, whatever the interleaving of the instances'
\* exists-checks and creations of the shared absent directory.
C19_AsClaimed ==
    \A r \in Runs : ~(pc[r] = "raised" /\ rng[r] = Unset)

\* C19 as the code has it: the check of line 124 and the creation of line 125
\* are two steps.  An instance that finds the directory absent goes on to
\* create it; the creation succeeds, and the instance goes on to seed its
\* generator, exactly when the directory is still absent at that moment, and
\* otherwise os.mkdir raises and the instance ends before seeding.  Of the
\* instances sharing a directory at most one is lost this way, and only after
\* another has created the directory; an instance that got past the creation
\* has the directory.
C19_CreateRace ==
    /\ [][\A r \in Runs :
            (pc[r] = "mkdir" /\ pc'[r] # "mkdir")
               => IF outdir[settings[r].host] = "absent"
                  THEN /\ outdir'[settings[r].host] = "dir"
                       /\ pc'[r] = "seed"
                  ELSE /\ outdir'[settings[r].host] = outdir[settings[r].host]
                       /\ pc'[r] = "raised"
                       /\ rng'[r] = Unset
         ]_vars
    /\ [](\A r \in Runs :
            /\ (pc[r] = "raised" /\ rng[r] = Unset)
                  => /\ outdir[settings[r].host] = "dir"
                     /\ \A q \in Runs \ {r} : ~(pc[q] = "raised" /\ rng[q] = Unset)
                     /\ \E q \in Runs \ {r} :
                           /\ settings[q].host = settings[r].host
                           /\ pc[q] \notin {"off", "start", "exists", "mkdir"}
            /\ rng[r] # Unset => outdir[settings[r].host] = "dir")

\* Witness: the first instance lost the race and ended before seeding, the
\* second created the directory and completed its batch.
C19_Witness ==
    /\ pc[1] = "raised" /\ rng[1] = Unset
    /\ pc[2] = "done" /\ sim_idx[2] = settings[2].start_idx + settings[2].batch_size
    /\ outdir[1] = "dir"

\* the rule of the filter that a result falls under first, in the order of
\* the code: 1 non-survival, 2 the total limit, 3 the extant limit, 4 the
\* extinct limit (2 to 4 in strict mode only), 0 when no rule fires
EarliestRule(res, st) ==
    IF ~res.survived /\ ~st.keep_extinct_trees THEN 1
    ELSE IF ~st.max_leaves_strict THEN 0
    ELSE IF Over(st.max_total_leaves, number_of_leaves(res.root)) THEN 2
    ELSE IF Over(st.max_extant_leaves, number_of_extant_leaves(res.root)) THEN 3
    ELSE IF Over(st.max_extinct_leaves, number_of_extinct_leaves(res.root)) THEN 4
    ELSE 0

\* C20: the filter step of a result is decided by the earliest rule the result
\* falls under, in the order non-survival, total limit, extant limit, extinct
\* limit.  Non-survival rejects, without a diagnostic, exactly when survived is
\* false and keep_extinct_trees is false; each limit rule rejects with the one
\* diagnostic that names that limit, its value and the count it is about; when
\* no rule fires the attempt is not rejected and nothing is written to stderr.
\* A result that falls under several rules gets the outcome and the diagnostic
\* of the earliest only.
C20_RuleOrder ==
    [][\A r \in Runs :
        FilterStep(r) =>
            LET res == result[r]
                st == settings[r]
                rule == EarliestRule(res, st)
            IN  /\ rule = 1 => /\ pc'[r] = "while"
                               /\ hist'[r].last.outcome = "not_survived"
                               /\ stderr'[r] = stderr[r]
                /\ hist'[r].last.outcome = "not_survived"
                      <=> (~res.survived /\ ~st.keep_extinct_trees)
                /\ rule = 2 => /\ pc'[r] = "while"
                               /\ hist'[r].last.outcome = "max_total_leaves"
                               /\ stderr'[r] = Append(stderr[r],
                                      [limit |-> "max_total_leaves",
                                       value |-> st.max_total_leaves,
                                       leaves |-> number_of_leaves(res.root)])
                /\ rule = 3 => /\ pc'[r] = "while"
                               /\ hist'[r].last.outcome = "max_extant_leaves"
                               /\ stderr'[r] = Append(stderr[r],
                                      [limit |-> "max_extant_leaves",
                                       value |-> st.max_extant_leaves,
                                       leaves |-> number_of_extant_leaves(res.root)])
                /\ rule = 4 => /\ pc'[r] = "while"
                               /\ hist'[r].last.outcome = "max_extinct_leaves"
                               /\ stderr'[r] = Append(stderr[r],
                                      [limit |-> "max_extinct_leaves",
                                       value |-> st.max_extinct_leaves,
                                       leaves |-> number_of_extinct_leaves(res.root)])
                /\ rule = 0 => /\ pc'[r] \in {"labels", "aborted"}
                               /\ hist'[r].rejected = hist[r].rejected
                               /\ stderr'[r] = stderr[r]
      ]_vars

\* Witness: a result with one extant leaf too many and every extinct leaf the
\* oracle can return, above all three limits at once, has been rejected under
\* the total limit, with that limit's diagnostic only.
C20_Witness ==
    /\ pc[1] = "while"
    /\ settings[1].max_leaves_strict
    /\ settings[1].max_total_leaves = TreeWidth + 1
    /\ settings[1].max_extant_leaves = TreeWidth
    /\ settings[1].max_extinct_leaves = MaxExtinct - 1
    /\ hist[1].last.outcome = "max_total_leaves"
    /\ stderr[1] = <<[limit |-> "max_total_leaves", value |-> TreeWidth + 1,
                      leaves |-> TreeWidth + 1 + MaxExtinct]>>

\* a limit is set, whatever its value, and the count is above it
OverSet(limit, count) == limit # None /\ count > limit

\* The statement of C21 as claimed: in strict mode no attempt gets past the
\* filter unrejected with a leaf count above a limit that is set, whatever the
\* value of the limit, 0 included.
C21_AsClaimed ==
    \A r \in Runs :
        (pc[r] \in {"labels", "aborted"} /\ settings[r].max_leaves_strict)
           => /\ ~OverSet(settings[r].max_total_leaves, number_of_leaves(result[r].root))
              /\ ~OverSet(settings[r].max_extant_leaves,
                          number_of_extant_leaves(result[r].root))
              /\ ~OverSet(settings[r].max_extinct_leaves,
                          number_of_extinct_leaves(result[r].root))

\* C21 as the code has it: in strict mode the filter step of a result that
\* passes the survival rule is a rejection when one of the three counts is
\* above its limit and that limit is neither absent nor 0.  A limit that is
\* absent or 0 is never the reason of a rejection, nor is a limit whose count
\* is equal to it or below; when no limit that is not absent and not 0 is
\* exceeded the attempt is not rejected.
C21_StrictLimits ==
    [][\A r \in Runs :
        (/\ FilterStep(r)
         /\ settings[r].max_leaves_strict
         /\ (result[r].survived \/ settings[r].keep_extinct_trees))
        => LET st == settings[r]
               total == number_of_leaves(result[r].root)
               extant == number_of_extant_leaves(result[r].root)
               extinct == number_of_extinct_leaves(result[r].root)
               why == hist'[r].last.outcome
               rejected == pc'[r] = "while" /\ hist'[r].rejected = hist[r].rejected + 1
           IN  /\ (\/ Over(st.max_total_leaves, total)
                   \/ Over(st.max_extant_leaves, extant)
                   \/ Over(st.max_extinct_leaves, extinct)) <=> rejected
               /\ rejected => why \in {"max_total_leaves", "max_extant_leaves",
                                       "max_extinct_leaves"}
               /\ why = "max_total_leaves"
                     => st.max_total_leaves \notin {None, 0} /\ total > st.max_total_leaves
               /\ why = "max_extant_leaves"
                     => st.max_extant_leaves \notin {None, 0} /\ extant > st.max_extant_leaves
               /\ why = "max_extinct_leaves"
                     => st.max_extinct_leaves \notin {None, 0}
                        /\ extinct > st.max_extinct_leaves
      ]_vars

\* Witness: in strict mode with the three limits 0 a surviving result of the
\* width, with an extinct leaf besides, was not rejected: its files are written.
C21_Witness ==
    /\ pc[1] = "done"
    /\ settings[1].max_leaves_strict
    /\ settings[1].max_total_leaves = 0
    /\ settings[1].max_extant_leaves = 0
    /\ settings[1].max_extinct_leaves = 0
    /\ hist[1].rejected = 0
    /\ \E p \in DOMAIN files[1] : p[4] = ".dat.csv" /\ Len(files[1][p]) > TreeWidth + 1

\* the five priors in the order in which draw_bdb_model asks them for a value
PriorOrder ==
    <<"state_rate", "log_birth_rate", "log_death_rate_prop", "burst_rate_prop",
      "burst_prob">>

\* how many of the first n priors of the order are not fixed
Served(priors, n) ==
    Cardinality({ i \in 1..n : priors[PriorOrder[i]].kind # "fixed" })

\* the value the i-th prior of the order gives when the stream of seed s stands
\* at position pos before the call of draw_bdb_model: its constant when it is
\* fixed, otherwise loc + scale * u with u the next unread value of the stream
Given(priors, i, s, pos) ==
    LET prior == priors[PriorOrder[i]]
    IN  IF prior.kind = "fixed" THEN prior.x
        ELSE prior.loc
               + (prior.scale * Stream(s, pos + Served(priors, i - 1))) \div UGrain

\* The statement of C22 as claimed: every call of draw_bdb_model has taken five
\* values from the stream, so after the model of the k-th attempt is drawn the
\* stream stands at 6 * (k - 1) + 5, whatever the priors are.
C22_AsClaimed ==
    \A r \in Runs :
        pc[r] = "draw_seed" => rng[r].pos = 6 * (hist[r].attempts - 1) + 5

\* C22 as the code has it: a call of draw_bdb_model takes one value from the
\* stream for each prior that is not fixed and none for a fixed one, in the
\* order state_rate, log_birth_rate, log_death_rate_prop, burst_rate_prop,
\* burst_prob: four values under the default priors, five only when no prior
\* is fixed.  The stream is not reseeded, and the model carries the values in
\* that order.
C22_DrawsTaken ==
    [][\A r \in Runs :
        (pc[r] = "draw_model" /\ pc'[r] # "draw_model")
        => LET priors == settings[r].priors
               s == rng[r].seed
               pos == rng[r].pos
               birth == Pow10(Given(priors, 2, s, pos))
           IN  /\ rng'[r].seed = s
               /\ rng'[r].pos = pos + Served(priors, 5)
               /\ model'[r].q[1][2] = Given(priors, 1, s, pos)
               /\ model'[r].birth_rates[1] = birth
               /\ model'[r].death_rates[1]
                     = (birth * Pow10(Given(priors, 3, s, pos))) \div Scale
               /\ model'[r].burst_rate = (birth * Given(priors, 4, s, pos)) \div Scale
               /\ model'[r].burst_probs[1] = Given(priors, 5, s, pos)
      ]_vars

\* Witness: under priors of the default shape (state_rate fixed, the other
\* four uniform) the model of the second attempt has been drawn: the stream
\* stands at 4 + 1 + 4.
C22_Witness ==
    /\ pc[1] = "draw_seed"
    /\ hist[1].attempts = 2
    /\ settings[1].priors.state_rate.kind = "fixed"
    /\ Served(settings[1].priors, 5) = 4
    /\ rng[1].pos = 9

\* the call the oracle must receive from run r: the seed and the model of the
\* attempt, root state 0, and the three limits and the time limit of main
ExpectedCall(r) ==
    << seed[r], model[r], 0, settings[r].max_extant_leaves,
       settings[r].max_extinct_leaves, settings[r].max_total_leaves,
       settings[r].max_time >>

\* C23: an attempt draws its model, then one seed, the next value of the same
\* stream, then calls the oracle once, with that seed, that model, the root
\* state and the limits, then runs the filter on the result of that call.  The
\* oracle has been called once per attempt when the filter runs.  A file is
\* opened only by an attempt the filter has accepted, for the index of that
\* attempt.
C23_AttemptOrder ==
    /\ [][\A r \in Runs :
            /\ (pc[r] = "draw_model" /\ pc'[r] # "draw_model")
                  => /\ pc'[r] = "draw_seed"
                     /\ model'[r] # Unset /\ seed'[r] = Unset /\ result'[r] = Unset
                     /\ hist'[r].attempts = hist[r].attempts + 1
                     /\ hist'[r].oracle_calls = hist[r].oracle_calls
            /\ (pc[r] = "draw_seed" /\ pc'[r] # "draw_seed")
                  => /\ pc'[r] = "oracle"
                     /\ seed'[r] = Stream(rng[r].seed, rng[r].pos)
                     /\ rng'[r] = [seed |-> rng[r].seed, pos |-> rng[r].pos + 1]
                     /\ model'[r] = model[r] /\ result'[r] = Unset
                     /\ hist'[r].oracle_calls = hist[r].oracle_calls
            /\ (pc[r] = "oracle" /\ pc'[r] # "oracle")
                  => /\ pc'[r] = "filter"
                     /\ hist'[r].oracle_calls = hist[r].oracle_calls + 1
                     /\ seed'[r] = seed[r] /\ model'[r] = model[r] /\ rng'[r] = rng[r]
                     /\ result'[r] \in OracleResults
                     /\ (ExpectedCall(r) \in DOMAIN oracle_memo)
                           # (ExpectedCall(r) \in DOMAIN oracle_memo')
                     /\ \A k \in (DOMAIN oracle_memo) \cup (DOMAIN oracle_memo') :
                           k # ExpectedCall(r)
                              => /\ k \in DOMAIN oracle_memo
                                 /\ k \in DOMAIN oracle_memo'
                     /\ ExpectedCall(r) \in DOMAIN oracle_memo'
                           => oracle_memo'[ExpectedCall(r)] = result'[r]
                     /\ ExpectedCall(r) \in DOMAIN oracle_memo
                           => oracle_memo[ExpectedCall(r)] = result'[r]
            /\ (pc[r] = "filter" /\ pc'[r] # "filter")
                  => /\ hist[r].oracle_calls = hist[r].attempts
                     /\ hist'[r].oracle_calls = hist[r].oracle_calls
                     /\ pc'[r] \in {"while", "aborted", "labels"}
            /\ files'[r] # files[r]
                  => /\ pc[r] \in {"write_labels", "write_tips", "write_tree"}
                     /\ hist[r].last = [idx |-> sim_idx[r], outcome |-> "accept"]
                     /\ hist[r].oracle_calls = hist[r].attempts
                     /\ \A p \in DOMAIN files'[r] :
                           (p \notin DOMAIN files[r] \/ files'[r][p] # files[r][p])
                              => p[3] = sim_idx[r]
            /\ hist'[r].last.outcome = "accept" /\ hist[r].last.outcome # "accept"
                  => pc[r] = "filter"
         ]_vars
    /\ [](\A r \in Runs :
            /\ pc[r] \in {"draw_seed", "oracle"}
                  => hist[r].oracle_calls = hist[r].attempts - 1
            /\ pc[r] \in {"draw_model", "draw_seed", "oracle", "filter"}
                  => sim_idx[r] \notin TouchedIndices(r))

\* Witness: after a rejected attempt the second attempt of the run was
\* accepted and its labels file is written: two oracle calls, two attempts,
\* one file; the other run has made its two calls as well.
C23_Witness ==
    /\ pc[1] = "write_tips"
    /\ hist[1].attempts = 2 /\ hist[1].oracle_calls = 2 /\ hist[1].rejected = 1
    /\ Cardinality(DOMAIN files[1]) = 1
    /\ hist[2].oracle_calls = 2

\* the eleven parameters of a model by name, as get_model_parameters lists them
NamedValues(m) ==
    [ state_rate_01 |-> m.q[1][2],
      state_rate_10 |-> m.q[2][1],
      birth_rate_0 |-> m.birth_rates[1],
      birth_rate_1 |-> m.birth_rates[2],
      death_rate_0 |-> m.death_rates[1],
      death_rate_1 |-> m.death_rates[2],
      burst_rate |-> m.burst_rate,
      burst_prob_0 |-> m.burst_probs[1],
      burst_prob_1 |-> m.burst_probs[2],
      expected_burst_rate_0 |-> (m.burst_rate * m.burst_probs[1]) \div Scale,
      expected_burst_rate_1 |-> (m.burst_rate * m.burst_probs[2]) \div Scale ]

\* C24: the step of line 214 either fails, exactly when one of the eleven
\* parameters of the model is <= 0, and then binds no dictionary at all, or
\* binds a dictionary with exactly the eleven entries log10_<k>, each the
\* logarithm of the parameter k.
C24_Log10Entries ==
    [][\A r \in Runs :
        (pc[r] = "labels" /\ pc'[r] # "labels")
        => LET v == NamedValues(model[r])
           IN  IF \E k \in DOMAIN v : v[k] <= 0
               THEN /\ pc'[r] = "raised"
                    /\ log10_variables'[r] = Unset
               ELSE /\ pc'[r] = "reduce"
                    /\ DOMAIN log10_variables'[r] = {"log10_" \o k : k \in DOMAIN v}
                    /\ Cardinality(DOMAIN log10_variables'[r]) = 11
                    /\ \A k \in DOMAIN v :
                          log10_variables'[r]["log10_" \o k] = [log10_of |-> v[k]]
      ]_vars

\* Witness: with burst_prob fixed at 0 and every other parameter above 0 the
\* step has failed after an accepted attempt.
C24_Witness ==
    /\ pc[1] = "raised"
    /\ hist[1].last.outcome = "accept"
    /\ model[1].burst_probs[1] = 0
    /\ model[1].q[1][2] > 0 /\ model[1].burst_rate > 0
    /\ log10_variables[1] = Unset

\* the endings of the files run r has for index i
EndingsAt(r, i) ==
    { ext \in {".labels.csv", ".dat.csv", ".tre"} : Named(r, i, ext) \in DOMAIN files[r] }

\* C25: wherever a run stands, every index from start_idx up to but not
\* including sim_idx has its three files, no index above sim_idx and none
\* below start_idx has a file, and the files of sim_idx are none, the labels,
\* the labels and the tip data, or all three: never the tip data without the
\* labels nor the tree without the other two.  A step that writes adds exactly
\* the next file of that order for sim_idx, and sim_idx moves, by one, only
\* from a state in which the tree file of sim_idx is complete.
C25_WriteOrder ==
    /\ [](\A r \in Runs :
            rng[r] # Unset =>
               /\ \A i \in Indices :
                     /\ (settings[r].start_idx <= i /\ i < sim_idx[r])
                           => EndingsAt(r, i) = {".labels.csv", ".dat.csv", ".tre"}
                     /\ (i > sim_idx[r] \/ i < settings[r].start_idx)
                           => EndingsAt(r, i) = {}
               /\ \A p \in DOMAIN files[r] : p[3] \in Indices
               /\ EndingsAt(r, sim_idx[r]) \in
                     { {}, {".labels.csv"}, {".labels.csv", ".dat.csv"},
                       {".labels.csv", ".dat.csv", ".tre"} })
    /\ [][\A r \in Runs :
            /\ files'[r] # files[r]
                  => \E ext \in {".labels.csv", ".dat.csv", ".tre"} :
                        /\ ext \notin EndingsAt(r, sim_idx[r])
                        /\ DOMAIN files'[r] = (DOMAIN files[r]) \cup {Named(r, sim_idx[r], ext)}
                        /\ \A p \in DOMAIN files[r] : files'[r][p] = files[r][p]
                        /\ sim_idx'[r] = sim_idx[r]
            /\ (rng[r] # Unset /\ sim_idx'[r] # sim_idx[r])
                  => /\ sim_idx'[r] = sim_idx[r] + 1
                     /\ files'[r] = files[r]
                     /\ Named(r, sim_idx[r], ".tre") \in DOMAIN files[r]
                     /\ files[r][Named(r, sim_idx[r], ".tre")][2] = ";\n"
         ]_vars

\* Witness: a run stopped here has the triple of its first index, and the
\* labels and the tip data of the second, whose tree is not written yet.
C25_Witness ==
    /\ pc[1] = "write_tree"
    /\ sim_idx[1] = settings[1].start_idx + 1
    /\ EndingsAt(1, settings[1].start_idx) = {".labels.csv", ".dat.csv", ".tre"}
    /\ EndingsAt(1, sim_idx[1]) = {".labels.csv", ".dat.csv"}

\* C26: the filter step of an attempt has one of three outcomes: the attempt
\* is rejected and the index retried, main is aborted, or the attempt is
\* accepted and goes on to its labels.  It is rejected exactly when the
\* survival rule or a strict-mode rule rejects the result, aborted exactly when
\* no rule rejects the result and its extant leaf count is not tree_width, and
\* accepted otherwise.  So with max_leaves_strict off every result that passes
\* the survival rule with another extant count aborts, and with
\* keep_extinct_trees on a tree that did not survive and has another extant
\* count aborts, unless a strict-mode rule rejects it, and is not retried.
C26_Outcomes ==
    [][\A r \in Runs :
        FilterStep(r) =>
            LET res == result[r]
                st == settings[r]
                extant == number_of_extant_leaves(res.root)
                rejected == /\ pc'[r] = "while"
                            /\ hist'[r].rejected = hist[r].rejected + 1
                aborted == /\ pc'[r] = "aborted"
                           /\ hist'[r].rejected = hist[r].rejected
                accepted == /\ pc'[r] = "labels"
                            /\ hist'[r].rejected = hist[r].rejected
            IN  /\ Cardinality({o \in {"rejected", "aborted", "accepted"} :
                                   \/ o = "rejected" /\ rejected
                                   \/ o = "aborted" /\ aborted
                                   \/ o = "accepted" /\ accepted}) = 1
                /\ rejected <=> RejectedByFilter(res, st)
                /\ aborted <=> (~RejectedByFilter(res, st) /\ extant # st.tree_width)
                /\ accepted <=> (~RejectedByFilter(res, st) /\ extant = st.tree_width)
                /\ (/\ ~st.max_leaves_strict
                    /\ (res.survived \/ st.keep_extinct_trees)
                    /\ extant # st.tree_width) => aborted
                /\ (/\ st.keep_extinct_trees /\ ~res.survived
                    /\ extant # st.tree_width
                    /\ ~(st.max_leaves_strict /\ Exceeded(res, st) # {}))
                      => aborted /\ sim_idx'[r] = sim_idx[r]
      ]_vars

\* Witness: with extinct trees kept and strict mode off, a tree that did not
\* survive, with one extant leaf too few, has aborted the batch at its second
\* index, after a rejection-free first one.
C26_Witness ==
    /\ pc[1] = "aborted"
    /\ settings[1].keep_extinct_trees /\ ~settings[1].max_leaves_strict
    /\ ~result[1].survived
    /\ number_of_extant_leaves(result[1].root) = settings[1].tree_width - 1
    /\ hist[1].rejected = 0
    /\ sim_idx[1] = settings[1].start_idx + 1

\* C27: a run whose batch_size is zero or negative makes no attempt: from the
\* seeding of its generator on it is at the loop test or past the loop, its
\* stream is unread, it has drawn no model, called no oracle and written no
\* file, and sim_idx is start_idx; the loop test takes it out of the loop, and
\* it never ends by an exception.
C27_EmptyBatch ==
    /\ [](\A r \in Runs :
            (pc[r] # "off" /\ settings[r].batch_size <= 0) =>
               /\ pc[r] \in {"start", "exists", "mkdir", "seed", "while", "done"}
               /\ hist[r].attempts = 0
               /\ hist[r].oracle_calls = 0
               /\ DOMAIN files[r] = {}
               /\ stderr[r] = <<>>
               /\ model[r] = Unset /\ seed[r] = Unset /\ result[r] = Unset
               /\ rng[r] # Unset
                     => /\ rng[r] = [seed |-> settings[r].start_idx, pos |-> 0]
                        /\ sim_idx[r] = settings[r].start_idx)
    /\ [][\A r \in Runs :
            (pc[r] = "while" /\ pc'[r] # "while" /\ settings[r].batch_size <= 0)
               => pc'[r] = "done" /\ sim_idx'[r] = settings[r].start_idx
         ]_vars

\* Witness: a run with batch_size -1 and start_idx 1 has left main normally
\* with sim_idx 1, having created its output directory.
C27_Witness ==
    /\ pc[1] = "done"
    /\ settings[1].batch_size = 0 - 1
    /\ settings[1].start_idx = 1
    /\ sim_idx[1] = 1
    /\ outdir[1] = "dir"

\* label_names of run r names something that is no derived label
UnknownLabel(r) ==
    \E i \in 1..Len(settings[r].label_names) :
        settings[r].label_names[i]
           \notin {"log10_" \o k : k \in DOMAIN NamedValues(model[r])}

\* C28: the steps of lines 214-217 write no file.  The step of line 214 fails
\* when a parameter of the accepted model is <= 0, the step of lines 215-217
\* fails exactly when label_names names something that is no derived label.
\* A run that has failed in either has no file of the current index, has the
\* complete triples of the indices from start_idx up to it and no other file,
\* and does nothing more.
C28_LabelFailure ==
    /\ [][\A r \in Runs :
            /\ (pc[r] \in {"labels", "reduce"} /\ pc'[r] # pc[r])
                  => /\ files'[r] = files[r]
                     /\ sim_idx'[r] = sim_idx[r]
                     /\ hist[r].last = [idx |-> sim_idx[r], outcome |-> "accept"]
                     /\ EndingsAt(r, sim_idx[r]) = {}
            /\ (pc[r] = "labels" /\ pc'[r] # pc[r]
                   /\ \E k \in DOMAIN NamedValues(model[r]) : NamedValues(model[r])[k] <= 0)
                  => pc'[r] = "raised"
            /\ (pc[r] = "reduce" /\ pc'[r] # pc[r])
                  => (pc'[r] = "raised" <=> UnknownLabel(r))
            /\ pc[r] = "raised"
                  => /\ pc'[r] = "raised"
                     /\ files'[r] = files[r]
                     /\ sim_idx'[r] = sim_idx[r]
                     /\ hist'[r] = hist[r]
         ]_vars
    /\ [](\A r \in Runs :
            (pc[r] = "raised" /\ rng[r] # Unset) =>
               /\ hist[r].last = [idx |-> sim_idx[r], outcome |-> "accept"]
               /\ EndingsAt(r, sim_idx[r]) = {}
               /\ CompleteTriples(r) = settings[r].start_idx..(sim_idx[r] - 1)
               /\ Cardinality(DOMAIN files[r]) = 3 * (sim_idx[r] - settings[r].start_idx))

\* Witness: the first index of the run has its triple; the model accepted for
\* the second has a state_rate of 0, the labels could not be computed, and the
\* second index has no file.
C28_Witness ==
    /\ pc[1] = "raised"
    /\ sim_idx[1] = settings[1].start_idx + 1
    /\ model[1].q[1][2] = 0
    /\ CompleteTriples(1) = {settings[1].start_idx}
    /\ EndingsAt(1, sim_idx[1]) = {}

\* the name of a file as line 163 and lines 164-166 format it: the joined
\* out_path and prefix, a dot, the index in decimal, and the ending
FileName(p) == <<p[1], "/", p[2], ".">> \o str(p[3]) \o ext_text(p[4])

\* the file names, as text, that run r has opened so far
OpenedNames(r) == { FileName(p) : p \in DOMAIN files[r] }

\* C29: once main has set sim_idx it never decreases; it changes only by one,
\* at line 226, when the three files of the index it leaves are written.  A
\* step that writes opens a file whose name, as text, is the name of no file
\* the run has opened before, and leaves every earlier file and its contents
\* in place: no name is opened twice and no file is rewritten or removed.
C29_WriteOnce ==
    [][\A r \in Runs :
        /\ (rng[r] # Unset /\ sim_idx'[r] # sim_idx[r])
              => /\ sim_idx'[r] = sim_idx[r] + 1
                 /\ pc[r] = "advance"
                 /\ EndingsAt(r, sim_idx[r]) = {".labels.csv", ".dat.csv", ".tre"}
                 /\ hist[r].last = [idx |-> sim_idx[r], outcome |-> "accept"]
        /\ \A p \in DOMAIN files[r] :
              /\ p \in DOMAIN files'[r] /\ files'[r][p] = files[r][p]
              /\ hist'[r].writer[p] = hist[r].writer[p]
        /\ \A p \in (DOMAIN files'[r]) \ (DOMAIN files[r]) :
              /\ FileName(p) \notin OpenedNames(r)
              /\ p[3] = sim_idx[r]
        /\ Cardinality(OpenedNames(r)) = Cardinality(DOMAIN files[r])
        /\ Cardinality((DOMAIN files'[r]) \ (DOMAIN files[r])) <= 1
      ]_vars

\* Witness: a run that started at index 1 has written six files under six
\* names and stands at index 3.
C29_Witness ==
    /\ pc[1] = "done"
    /\ settings[1].start_idx = 1
    /\ sim_idx[1] = 3
    /\ Cardinality(OpenedNames(1)) = 6
    /\ hist[1].rejected >= 1

\* the parameters, by name, of the model that the k-th attempt of run r draws:
\* the stream of start_idx has by then served k - 1 models and k - 1 seeds
ParametersOf(r, k) ==
    LET priors == settings[r].priors
        s == settings[r].start_idx
        pos == (k - 1) * (Served(priors, 5) + 1)
        state_rate == Given(priors, 1, s, pos)
        birth == Pow10(Given(priors, 2, s, pos))
        death == (birth * Pow10(Given(priors, 3, s, pos))) \div Scale
        burst == (birth * Given(priors, 4, s, pos)) \div Scale
        prob == Given(priors, 5, s, pos)
    IN  [ state_rate_01 |-> state_rate, state_rate_10 |-> state_rate,
          birth_rate_0 |-> birth, birth_rate_1 |-> birth,
          death_rate_0 |-> death, death_rate_1 |-> death,
          burst_rate |-> burst,
          burst_prob_0 |-> prob, burst_prob_1 |-> prob,
          expected_burst_rate_0 |-> (burst * prob) \div Scale,
          expected_burst_rate_1 |-> (burst * prob) \div Scale ]

\* the labels file with contents `content` carries, under each of its names,
\* the logarithm of the parameter of that name in `values`
CarriesLabelsOf(content, values) ==
    /\ Len(content[1]) = Len(content[2])
    /\ \A i \in 1..Len(content[1]) :
          \E k \in DOMAIN values :
              /\ content[1][i] = "log10_" \o k
              /\ content[2][i] = [log10_of |-> values[k]]

\* C30: the three files of an index are written by one attempt, the attempt
\* the filter accepted for that index; the labels file carries the parameters
\* of the model that this attempt drew, and the tip data and the tree are those
\* of the oracle result of the same attempt.  The model and the result of an
\* attempt are replaced only by the draw and the oracle call of the next one,
\* so nothing of a rejected attempt reaches a file.
C30_SameAttempt ==
    /\ [](\A r \in Runs :
            /\ \A p \in DOMAIN files[r] :
                  /\ \A q \in DOMAIN files[r] :
                        q[3] = p[3] => hist[r].writer[q].attempt = hist[r].writer[p].attempt
                  /\ p[4] = ".labels.csv"
                        => CarriesLabelsOf(files[r][p],
                                           ParametersOf(r, hist[r].writer[p].attempt))
            /\ model[r] # Unset => NamedValues(model[r]) = ParametersOf(r, hist[r].attempts))
    /\ [][\A r \in Runs :
            /\ \A p \in (DOMAIN files'[r]) \ (DOMAIN files[r]) :
                  /\ hist'[r].writer[p].attempt = hist[r].attempts
                  /\ hist[r].last = [idx |-> p[3], outcome |-> "accept"]
                  /\ p[4] = ".labels.csv"
                        => CarriesLabelsOf(files'[r][p], NamedValues(model[r]))
                  /\ p[4] = ".dat.csv"
                        => /\ Len(files'[r][p]) = 1 + Len(result[r].root.leaves)
                           /\ \A i \in 1..Len(result[r].root.leaves) :
                                 files'[r][p][i + 1][1] = result[r].root.leaves[i].label
                  /\ p[4] = ".tre" => files'[r][p][1].newick = result[r].root.leaves
            /\ (model[r] # Unset /\ model'[r] # model[r]) => model'[r] = Unset
            /\ (result[r] # Unset /\ result'[r] # result[r]) => result'[r] = Unset
            /\ (model[r] = Unset /\ model'[r] # Unset) => pc[r] = "draw_model"
            /\ (result[r] = Unset /\ result'[r] # Unset) => pc[r] = "oracle"
         ]_vars

\* Witness: the first attempt of the run was rejected and the second accepted;
\* the labels file carries the parameters of the second attempt's model, which
\* are not those of the first.
C30_Witness ==
    /\ pc[1] = "done"
    /\ settings[1].batch_size = 1
    /\ hist[1].attempts = 2 /\ hist[1].rejected = 1
    /\ ParametersOf(1, 1) # ParametersOf(1, 2)
    /\ \E p \in DOMAIN files[1] :
          /\ p[4] = ".labels.csv"
          /\ CarriesLabelsOf(files[1][p], ParametersOf(1, 2))
          /\ ~CarriesLabelsOf(files[1][p], ParametersOf(1, 1))

====
